---- MODULE Spec2Model ----
(***************************************************************************)
(* A model of the mascraper pipelines (main.py, main2.py, main3.py):       *)
(* the ingestion step format_deal_data, the detail-page crawl with its     *)
(* block recovery, the list-page crawl with its transient-error retry,     *)
(* and the start of main (baseline read of the destination sheet).         *)
(*                                                                         *)
(* Texts are sequences of one-character tokens.  The tokens have ASCII     *)
(* names: "oku" = 億, "sen" = 千, "hyaku" = 百, "man" = 万, "en" = 円,     *)
(* "wave" = 〜 (U+301C), "fwtilde" = ～ (U+FF5E), "F0".."F9" = full-width  *)
(* digits, "hi","kou","kai" = 非公開, "ou","sou","dan" = 応相談,           *)
(* "aka","ji" = 赤字, "ki","bou","na","shi" = 希望なし.                    *)
(***************************************************************************)
EXTENDS Integers, Sequences, FiniteSets, TLC

VARIABLES
  \* ---- format_deal_data and its caller's loop (main) ----
  variant,          \* which script runs: "main", "main2" or "main3"
  existing_ids,     \* the known-identifier set handed to format_deal_data
  f_raw_deals,      \* argument raw_deals of the running format_deal_data call
  f_i,              \* number of records of f_raw_deals already processed
  formatted_deals,  \* local list formatted_deals of the running call
  all_new_deals,    \* main's accumulated batch
  f_pc,             \* "idle" between calls, "loop" inside format_deal_data
  f_calls,          \* format_deal_data calls made so far in this run
  \* ---- enhance_deals_with_details and the detail fetch ----
  d_site,           \* "standard", "strike" (main.py) or "speedma" (main3.py)
  d_raw_deals,      \* argument raw_deals: sequence of [id, has_link]
  d_i,              \* 1-based index of the deal being processed
  d_pc,             \* position inside enhance_deals_with_details / the fetch
  blocked_detected, \* AntiBlockingManager.blocked_detected
  enhanced_deals,   \* sequence of [id, detail]: detail is the page extracted
  d_loads,          \* driver.get calls made for each deal
  d_first,          \* per deal, outcome of the first load of its fetch
  d_recov,          \* per deal, outcome of the recovery load of its fetch
  driver,           \* the browser: "none", "running" or "quit"
  \* ---- scrape_site / scrape_speed_ma / scrape_nihon_ma_center, fetch_html ----
  n_script,         \* "main" (scrape_site), "main3" or "main2"
  max_pages,        \* number of list pages of the source
  max_retries,      \* max_retries of retry_on_failure
  page_num,         \* list page of the loop
  attempt,          \* retry_on_failure's loop variable
  n_pc,             \* position inside the list crawl
  requests,         \* per page, client.get calls of its fetch_html call
  sleeps,           \* per page, time.sleep calls of retry_on_failure
  first_outcome,    \* per page, how the first request ended
  last_outcome,     \* per page, how the last request so far ended
  page_log,         \* per page, how the fetch_html call ended
  all_deals,        \* pages whose deals were added to all_deals, in order
  retry_delay,      \* delay of retry_on_failure
  waits,            \* per page, the time.sleep arguments of its fetch_html call
  pagination,       \* site_config['pagination']['type'], "none" when not set
  urls,             \* the url of every fetch_html call, in order
  \* ---- main (main.py): connection, baseline, sources, append ----
  m_pc,             \* position inside main
  sheet_ids,        \* unique_id column of the destination sheet
  worksheet,        \* GSheetConnector.worksheet: "ok" or "None"
  m_read,           \* how get_existing_ids ended: "none", "ok" or "failed"
  m_existing,       \* main's local existing_ids
  m_site,           \* sources processed so far
  m_fetches,        \* list and detail pages fetched by this run
  m_new,            \* main's all_new_deals, as unique_ids
  m_appended,       \* rows appended to the sheet by this run, as unique_ids
  m_script,         \* which main runs: "main" or "main2"
  m_raised,         \* per source, the stage at which an error came up
  m_found,          \* per source, what it handed to all_new_deals
  m_store,          \* the reads and appends of the sheet, in order
  m_write,          \* how write_deals ended
  m_final,          \* final_deals of write_deals, as unique_ids
  m_others,         \* rows other processes appended during this run
  \* ---- the financial parsers and the threshold test, one text at a time ----
  c_parser,         \* the parser applied
  c_text,           \* the financial text
  c_pc,             \* "input", "parsed" or "judged"
  c_result,         \* what the parser returned
  c_qualifies,      \* what the threshold test of the parser's script said
  c_display,        \* the text as formatted for display
  c_redisplay,      \* the displayed text formatted once more
  \* ---- UniversalParser: one field extracted from one listing element ----
  x_func,           \* the extraction function that runs
  x_item,           \* per selector of the chain, what select_one gives
  x_text,           \* item.get_text(): the flattened text of the element
  x_k,              \* selectors tried so far
  x_pc,             \* "chain" inside the loop, "done" after the return
  x_result,         \* the text returned
  \* ---- UniversalParser: the text fallback, one page ----
  w_text,           \* content_text: the flattened text of the page
  w_i,              \* matches of deal_matches processed so far
  w_windows,        \* per pass of the loop: the slice taken and what was read
  w_results,        \* local list results
  w_pc              \* "loop" inside the function, "done" after the return

fmtVars == <<variant, existing_ids, f_raw_deals, f_i, formatted_deals,
             all_new_deals, f_pc, f_calls>>
detVars == <<d_site, d_raw_deals, d_i, d_pc, blocked_detected, enhanced_deals,
             d_loads, d_first, d_recov, driver>>
netVars == <<n_script, max_pages, max_retries, page_num, attempt, n_pc,
             requests, sleeps, first_outcome, last_outcome, page_log, all_deals,
             retry_delay, waits, pagination, urls>>
mainVars == <<m_pc, sheet_ids, worksheet, m_read, m_existing, m_site,
              m_fetches, m_new, m_appended, m_script, m_raised, m_found,
              m_store, m_write, m_final, m_others>>
convVars == <<c_parser, c_text, c_pc, c_result, c_qualifies, c_display,
              c_redisplay>>
extVars == <<x_func, x_item, x_text, x_k, x_pc, x_result>>
winVars == <<w_text, w_i, w_windows, w_results, w_pc>>
vars == <<fmtVars, detVars, netVars, mainVars, convVars, extVars, winVars>>

(***************************************************************************)
(* Bounds of the model                                                     *)
(***************************************************************************)
MaxDeals == 2        \* longest raw_deals list of one format_deal_data call
MaxDetailDeals == 3  \* deals of one enhance_deals_with_details call
MaxPages == 2        \* largest configured max_pages (main.py, main3.py)
MaxRetries == 4      \* largest configured max_retries
MaxFound == 2        \* most deals one source yields in the model of main
MaxOtherAppends == 1 \* most rows other processes append during one run
MaxStretches == 5    \* most stretches of text of a page in the text fallback

(***************************************************************************)
(* Text helpers (Python str operations on token sequences)                 *)
(***************************************************************************)
\* Python: kw in text
Contains(text, kw) ==
  \E i \in 1..(Len(text) - Len(kw) + 1) : SubSeq(text, i, i + Len(kw) - 1) = kw

\* Python: text.replace(c, '') for a one-character c
RemoveChar(text, c) == SelectSeq(text, LAMBDA x : x # c)

HalfDigits == {"0", "1", "2", "3", "4", "5", "6", "7", "8", "9"}
FullDigits == {"F0", "F1", "F2", "F3", "F4", "F5", "F6", "F7", "F8", "F9"}

ToHalf(c) ==
  CASE c = "F0" -> "0" [] c = "F1" -> "1" [] c = "F2" -> "2" [] c = "F3" -> "3"
    [] c = "F4" -> "4" [] c = "F5" -> "5" [] c = "F6" -> "6" [] c = "F7" -> "7"
    [] c = "F8" -> "8" [] c = "F9" -> "9" [] OTHER -> c

\* Python: text.translate(str.maketrans('０１２３４５６７８９', '0123456789'))
TranslateDigits(text) == [i \in 1..Len(text) |-> ToHalf(text[i])]

DigitValue(c) ==
  CASE c = "0" -> 0 [] c = "1" -> 1 [] c = "2" -> 2 [] c = "3" -> 3
    [] c = "4" -> 4 [] c = "5" -> 5 [] c = "6" -> 6 [] c = "7" -> 7
    [] c = "8" -> 8 [] c = "9" -> 9 [] OTHER -> 0

\* re [\d\.] : Python's \d also matches the full-width digits
IsNumChar(c) == c \in HalfDigits \cup FullDigits \cup {"."}

\* Python: re.split(r'[...]', text)[-1] : the part after the last separator
LastPart(text, seps) ==
  LET idx == {i \in 1..Len(text) : text[i] \in seps}
      last == IF idx = {} THEN 0 ELSE CHOOSE i \in idx : \A j \in idx : j <= i
  IN SubSeq(text, last + 1, Len(text))

\* Python: text.split(sep)[0] : the part before the first occurrence of sep
FirstPart(text, sep) ==
  LET idx == {i \in 1..Len(text) : text[i] = sep}
      first == IF idx = {} THEN Len(text) + 1
               ELSE CHOOSE i \in idx : \A j \in idx : i <= j
  IN SubSeq(text, 1, first - 1)

\* Python: re.search(r'([\d\.]+)', text).group(1), <<>> when there is no match
FirstNumberRun(text) ==
  LET idx == {i \in 1..Len(text) : IsNumChar(text[i])}
  IN IF idx = {} THEN <<>>
     ELSE LET s == CHOOSE i \in idx : \A j \in idx : i <= j
              e == CHOOSE i \in s..Len(text) :
                     /\ \A j \in s..i : IsNumChar(text[j])
                     /\ (i = Len(text) \/ ~IsNumChar(text[i + 1]))
          IN SubSeq(text, s, e)

RECURSIVE DigitsToInt(_)
DigitsToInt(ds) ==
  IF ds = <<>> THEN 0
  ELSE 10 * DigitsToInt(SubSeq(ds, 1, Len(ds) - 1)) + DigitValue(ToHalf(ds[Len(ds)]))

RECURSIVE Pow10(_)
Pow10(n) == IF n = 0 THEN 1 ELSE 10 * Pow10(n - 1)

\* Python: float(run).  ok = FALSE stands for ValueError (no digit, or more
\* than one decimal point).  The value is mant / 10^dec, kept exact.
ParseFloat(run) ==
  LET dots == {i \in 1..Len(run) : run[i] = "."}
      digs == SelectSeq(run, LAMBDA c : c # ".")
      dot  == IF dots = {} THEN Len(run) + 1 ELSE CHOOSE i \in dots : TRUE
  IN [ok   |-> Cardinality(dots) <= 1 /\ digs # <<>>,
      mant |-> DigitsToInt(digs),
      dec  |-> IF dots = {} THEN 0 ELSE Len(run) - dot]

(***************************************************************************)
(* Financial text -> number (main.py DataConverter, main3.py               *)
(* SpeedMADataConverter)                                                   *)
(***************************************************************************)
KwHikoukai == <<"hi", "kou", "kai">>
KwOusoudan == <<"ou", "sou", "dan">>
KwAkaji == <<"aka", "ji">>
KwNA == <<"N", "/", "A">>
KwKibouNashi == <<"ki", "bou", "na", "shi">>
KwKurojiNashi == <<"kuro", "ji", "na", "shi">>
KwSonekiNashi == <<"son", "eki", "na", "shi">>
KwMasked == <<"*", "*">>

MainKeywords == {KwHikoukai, KwOusoudan, KwAkaji, KwNA, KwKibouNashi,
                 KwKurojiNashi, KwSonekiNashi}
SpeedMAKeywords == {KwHikoukai, KwOusoudan, KwAkaji, KwNA, KwKibouNashi, KwMasked}

\* the dict multipliers of main.py, in insertion order
MainMultipliers ==
  << [unit |-> <<"oku">>,          mult |-> 100000000],
     [unit |-> <<"sen", "man">>,   mult |-> 10000000],
     [unit |-> <<"hyaku", "man">>, mult |-> 1000000],
     [unit |-> <<"man">>,          mult |-> 10000] >>

\* the dict multipliers of main3.py, in insertion order
SpeedMAMultipliers ==
  << [unit |-> <<"oku", "en">>,          mult |-> 100000000],
     [unit |-> <<"oku">>,                mult |-> 100000000],
     [unit |-> <<"sen", "man", "en">>,   mult |-> 10000000],
     [unit |-> <<"sen", "man">>,         mult |-> 10000000],
     [unit |-> <<"hyaku", "man", "en">>, mult |-> 1000000],
     [unit |-> <<"hyaku", "man">>,       mult |-> 1000000],
     [unit |-> <<"man", "en">>,          mult |-> 10000],
     [unit |-> <<"man">>,                mult |-> 10000] >>

\* for unit, multiplier in multipliers.items(): if unit in text: ...; break
FirstMultiplier(table, text) ==
  LET hits == {k \in 1..Len(table) : Contains(text, table[k].unit)}
  IN IF hits = {} THEN 1
     ELSE table[CHOOSE k \in hits : \A j \in hits : k <= j].mult

\* int(value * multiplier), value = mant / 10^dec, computed exactly
ScaledInt(f, mult) == (f.mant * mult) \div Pow10(f.dec)

\* main.py DataConverter.parse_financial_value
MainParseFinancialValue(text0) ==
  IF text0 = <<>> \/ \E kw \in MainKeywords : Contains(text0, kw) THEN 0
  ELSE LET text   == RemoveChar(TranslateDigits(text0), ",")
           target == LastPart(text, {"wave", "fwtilde", "-"})
           run    == FirstNumberRun(target)
           f      == ParseFloat(run)
       IN IF run = <<>> \/ ~f.ok THEN 0
          ELSE ScaledInt(f, FirstMultiplier(MainMultipliers, text))

SpeedMASeparators == <<"wave", "fwtilde", "-", "?">>

\* main3.py SpeedMADataConverter.parse_financial_value
SpeedMAParseFinancialValue(text0) ==
  IF text0 = <<>> \/ \E kw \in SpeedMAKeywords : Contains(text0, kw) THEN 0
  ELSE LET text1 == RemoveChar(TranslateDigits(text0), ",")
           seps  == {k \in 1..Len(SpeedMASeparators) :
                       Contains(text1, <<SpeedMASeparators[k]>>)}
           text  == IF seps = {} THEN text1
                    ELSE FirstPart(text1,
                           SpeedMASeparators[CHOOSE k \in seps : \A j \in seps : k <= j])
           run   == FirstNumberRun(text)
           f     == ParseFloat(run)
       IN IF run = <<>> \/ ~f.ok THEN 0
          ELSE ScaledInt(f, FirstMultiplier(SpeedMAMultipliers, text))

MinRevenueDefault == 300000000
MinProfitDefault == 30000000

(***************************************************************************)
(* Financial text -> (min, max): parse_financial_value and meets_condition *)
(* of scraper_batonz.py, scraper_masucceed.py and scraper_btix.py, and     *)
(* parse_ondeck_revenue of main2.py.  More tokens: "btri" = ▲, "wtri" = △, *)
(* "minus" = − (U+2212), "emdash" = —, "endash" = –, "chouon" = ー,        *)
(* "~" = ASCII tilde, "fwq" = ？, "fwcomma" = ，, "touten" = 、,           *)
(* "fwslash" = ／, "mi","mitsu" = 未満, "i","ka" = 以下, "i","jou" = 以上,  *)
(* "nen","kan" = 年間, "yaku" = 約, "kara1","kara2" = から.                *)
(***************************************************************************)
\* float('inf'): larger than every amount of the model
InfValue == 2000000000

KwMiman == <<"mi", "mitsu">>
KwIka == <<"i", "ka">>
KwIjou == <<"i", "jou">>
KwHikaiji == <<"hi", "kai", "shimesu">>
KwMikaiji == <<"mi", "kai", "shimesu">>
KwYousoudan == <<"you", "sou", "dan">>
KwBetto == <<"betsu", "to">>
KwSonota == <<"so", "no", "ta">>

\* first index at which sub occurs in text, 0 when it does not
IndexOfSub(text, sub) ==
  LET idx == {i \in 1..(Len(text) - Len(sub) + 1) :
                SubSeq(text, i, i + Len(sub) - 1) = sub}
  IN IF idx = {} THEN 0 ELSE CHOOSE i \in idx : \A j \in idx : i <= j

\* Python: text.split(sep)[0] and text.split(sep, 1)[1] for a sep in text
BeforeFirst(text, sep) == SubSeq(text, 1, IndexOfSub(text, sep) - 1)
AfterFirst(text, sep) == SubSeq(text, IndexOfSub(text, sep) + Len(sep), Len(text))
\* Python: text.split(sep)[1]: up to the next occurrence of sep
SecondPart(text, sep) ==
  LET rest == AfterFirst(text, sep)
  IN IF Contains(rest, sep) THEN BeforeFirst(rest, sep) ELSE rest

\* the first element of an ordered list of separators that occurs in text
FirstSeparator(seps, text) ==
  LET hits == {k \in 1..Len(seps) : Contains(text, seps[k])}
  IN IF hits = {} THEN <<>> ELSE seps[CHOOSE k \in hits : \A j \in hits : k <= j]

\* int(value * multiplier) for a signed value: int() truncates toward zero
SignedScaledInt(neg, f, mult) ==
  IF neg THEN 0 - ScaledInt(f, mult) ELSE ScaledInt(f, mult)

Returned(lo, hi) == [raised |-> FALSE, min |-> lo, max |-> hi]
ValueError == [raised |-> TRUE, min |-> 0, max |-> 0]

\* re.search(r'(-?[\d\.]+)', text): the first run of digits and points with
\* the "-" right before it, if there is one
SignedNumberRun(text) ==
  LET idx == {i \in 1..Len(text) : IsNumChar(text[i])}
      s   == CHOOSE i \in idx : \A j \in idx : i <= j
  IN IF idx = {} THEN [found |-> FALSE, neg |-> FALSE, run |-> <<>>]
     ELSE [found |-> TRUE, neg |-> s > 1 /\ text[s - 1] = "-",
           run |-> FirstNumberRun(text)]

\* ---- scraper_batonz.py ----
BatonzUnit(text) ==
  IF Contains(text, <<"oku">>) THEN 100000000
  ELSE IF Contains(text, <<"man">>) THEN 10000
  ELSE IF Contains(text, <<"sen">>) THEN 1000 ELSE 1

\* _extract_single_value: float(match.group(1)) is not guarded
BatonzExtractSingleValue(text0) ==
  IF text0 = <<>> THEN [raised |-> FALSE, v |-> 0]
  ELSE LET text == RemoveChar(RemoveChar(text0, ","), "fwcomma")
           run  == FirstNumberRun(text)
           f    == ParseFloat(run)
       IN IF run = <<>> THEN [raised |-> FALSE, v |-> 0]
          ELSE IF ~f.ok THEN [raised |-> TRUE, v |-> 0]
          ELSE [raised |-> FALSE, v |-> ScaledInt(f, BatonzUnit(text))]

BatonzSeparators ==
  << <<"fwtilde">>, <<"wave">>, <<"?">>, <<"fwq">>, <<"-">>, <<"chouon">>,
     <<"endash">>, <<"emdash">> >>

\* the pair of two _extract_single_value results, or their ValueError
PairOf(a, b) ==
  IF a.raised \/ b.raised THEN ValueError ELSE Returned(a.v, b.v)

BatonzParseFinancialValue(text) ==
  IF text = <<>> THEN Returned(0, 0)
  ELSE LET sep == FirstSeparator(BatonzSeparators, text)
       IN IF sep # <<>>
          THEN PairOf(BatonzExtractSingleValue(BeforeFirst(text, sep)),
                      BatonzExtractSingleValue(SecondPart(text, sep)))
          ELSE PairOf(BatonzExtractSingleValue(text), BatonzExtractSingleValue(text))

\* meets_condition of scraper_batonz.py: max_val >= threshold
BatonzMeetsCondition(r, threshold) == r.max >= threshold

\* ---- scraper_masucceed.py ----
ScraperUnit(text) ==
  IF Contains(text, <<"oku">>) THEN 100000000
  ELSE IF Contains(text, <<"hyaku", "man", "en">>) THEN 1000000
  ELSE IF Contains(text, <<"man">>) THEN 10000
  ELSE IF Contains(text, <<"sen">>) THEN 1000 ELSE 1

SucceedExtractSingleValue(text0) ==
  IF text0 = <<>> THEN [raised |-> FALSE, v |-> 0]
  ELSE LET text1 == RemoveChar(RemoveChar(text0, ","), "fwcomma")
           text  == [i \in 1..Len(text1) |->
                       IF text1[i] = "btri" THEN "-" ELSE text1[i]]
           m     == SignedNumberRun(text)
           f     == ParseFloat(m.run)
       IN IF ~m.found THEN [raised |-> FALSE, v |-> 0]
          ELSE IF ~f.ok THEN [raised |-> TRUE, v |-> 0]
          ELSE [raised |-> FALSE, v |-> SignedScaledInt(m.neg, f, ScraperUnit(text))]

SucceedSeparators == << <<"fwtilde">>, <<"wave">>, <<"~">>, <<"chouon">> >>

\* (0, val) for "less than", (val, inf) or (-inf, val) for "at least"
UpTo(x) == IF x.raised THEN ValueError ELSE Returned(0, x.v)
AtLeast(x) ==
  IF x.raised THEN ValueError
  ELSE IF x.v < 0 THEN Returned(0 - InfValue, x.v) ELSE Returned(x.v, InfValue)

SucceedParseFinancialValue(text) ==
  IF text = <<>> \/ Contains(text, KwOusoudan) THEN Returned(0, 0)
  ELSE IF Contains(text, KwMiman) \/ Contains(text, KwIka)
  THEN UpTo(SucceedExtractSingleValue(text))
  ELSE IF Contains(text, KwIjou) \/ text[Len(text)] = "wave"
  THEN AtLeast(SucceedExtractSingleValue(text))
  ELSE LET sep == FirstSeparator(SucceedSeparators, text)
       IN IF sep # <<>>
          THEN PairOf(SucceedExtractSingleValue(BeforeFirst(text, sep)),
                      SucceedExtractSingleValue(SecondPart(text, sep)))
          ELSE PairOf(SucceedExtractSingleValue(text), SucceedExtractSingleValue(text))

\* meets_condition of scraper_masucceed.py and scraper_btix.py
MeetsCondition(r, threshold) ==
  IF r.max < 0 /\ threshold > 0 THEN FALSE ELSE r.max >= threshold

\* ---- scraper_btix.py ----
\* normalize_text, one character at a time
BtixNormalizeChar(c) ==
  CASE c \in FullDigits -> ToHalf(c)
    [] c \in {"fwcomma", "touten"} -> ","
    [] c \in {"wave", "~", "chouon"} -> "fwtilde"
    [] c \in {"btri", "wtri", "minus", "emdash"} -> "-"
    [] c = "fwslash" -> "/"
    [] OTHER -> c
NormalizeText(text) == [i \in 1..Len(text) |-> BtixNormalizeChar(text[i])]

\* the character classes [\d,，] and \d of the patterns
DigitOrComma == HalfDigits \cup FullDigits \cup {",", "fwcomma"}
Digit == HalfDigits \cup FullDigits

\* the longest stretch of text from index s on whose characters are in class
RunFrom(text, s, class) ==
  LET stop == {i \in s..Len(text) : text[i] \notin class}
      e    == IF stop = {} THEN Len(text)
              ELSE (CHOOSE i \in stop : \A j \in stop : i <= j) - 1
  IN SubSeq(text, s, e)

\* re.search(r'(-?[\d,，]+\.?\d*)', text) with the commas removed
\* (lead = [\d,，]) and re.search(r'(-?\d+\.?\d*)', text) (lead = \d):
\* sign, the digits before the point and the digits after it
BtixNumberMatch(text, lead) ==
  LET idx == {i \in 1..Len(text) : text[i] \in lead}
      s   == CHOOSE i \in idx : \A j \in idx : i <= j
      run == RunFrom(text, s, lead)
      p   == s + Len(run)
      frac == IF p <= Len(text) /\ text[p] = "."
              THEN IF p + 1 <= Len(text) THEN RunFrom(text, p + 1, Digit) ELSE <<>>
              ELSE <<>>
  IN IF idx = {} THEN [found |-> FALSE, neg |-> FALSE, int |-> <<>>, frac |-> <<>>]
     ELSE [found |-> TRUE, neg |-> s > 1 /\ text[s - 1] = "-",
           int |-> SelectSeq(run, LAMBDA c : c \in Digit), frac |-> frac]

\* float(number_str) of a match: the digits around the point
MatchFloat(m) ==
  [ok |-> m.int \o m.frac # <<>>, mant |-> DigitsToInt(m.int \o m.frac),
   dec |-> Len(m.frac)]

\* _extract_single_value: the first pattern whose match float() accepts
\* (the second pattern matches where the first does and fails with it)
BtixExtractSingleValue(text0) ==
  IF text0 = <<>> THEN 0
  ELSE LET text == NormalizeText(text0)
           m1   == BtixNumberMatch(text, DigitOrComma)
           m3   == BtixNumberMatch(text, Digit)
           m    == IF m1.found /\ MatchFloat(m1).ok THEN m1 ELSE m3
           f    == MatchFloat(m)
       IN IF ~m.found \/ ~f.ok \/ f.mant = 0 THEN 0
          ELSE SignedScaledInt(m.neg, f, ScraperUnit(text))

BtixKeywords == {KwOusoudan, KwHikaiji, KwYousoudan, KwBetto, KwSonota}
BtixSeparators ==
  << <<"fwtilde">>, <<"wave">>, <<"~">>, <<"chouon">>, <<"-">>,
     <<"kara1", "kara2">>, <<"wave">> >>

\* re.sub(r'/年間?', '', text)
RECURSIVE StripPerYear(_)
StripPerYear(text) ==
  IF text = <<>> THEN <<>>
  ELSE IF Len(text) >= 3 /\ SubSeq(text, 1, 3) = <<"/", "nen", "kan">>
  THEN StripPerYear(SubSeq(text, 4, Len(text)))
  ELSE IF Len(text) >= 2 /\ SubSeq(text, 1, 2) = <<"/", "nen">>
  THEN StripPerYear(SubSeq(text, 3, Len(text)))
  ELSE <<text[1]>> \o StripPerYear(Tail(text))

BtixParseFinancialValue(text) ==
  IF text = <<>> \/ \E kw \in BtixKeywords : Contains(text, kw) THEN Returned(0, 0)
  ELSE LET normalized_text == StripPerYear(NormalizeText(text))
           sep == FirstSeparator(BtixSeparators, normalized_text)
           val == BtixExtractSingleValue(normalized_text)
       IN IF Contains(normalized_text, KwMiman) \/ Contains(normalized_text, KwIka)
          THEN Returned(0, val)
          ELSE IF \/ Contains(normalized_text, KwIjou)
                  \/ (normalized_text # <<>>
                        /\ normalized_text[Len(normalized_text)] = "fwtilde")
          THEN IF val < 0 THEN Returned(0 - InfValue, val) ELSE Returned(val, InfValue)
          ELSE IF sep # <<>>
          THEN Returned(BtixExtractSingleValue(BeforeFirst(normalized_text, sep)),
                        BtixExtractSingleValue(AfterFirst(normalized_text, sep)))
          ELSE Returned(val, val)

\* ---- main2.py DataConverter.parse_ondeck_revenue ----
OndeckKeywords == {KwOusoudan, KwHikaiji, KwMikaiji, <<"-">>}

\* re.sub(r'約|[（(][^）)]*[）)]', '', text): "(" and ")" stand for both widths
RECURSIVE StripApprox(_)
StripApprox(text) ==
  IF text = <<>> THEN <<>>
  ELSE IF text[1] = "yaku" THEN StripApprox(Tail(text))
  ELSE IF text[1] = "(" /\ Contains(Tail(text), <<")">>)
  THEN StripApprox(AfterFirst(Tail(text), <<")">>))
  ELSE <<text[1]>> \o StripApprox(Tail(text))

\* the character class [\d,]
OndeckDigitOrComma == HalfDigits \cup FullDigits \cup {","}

\* re.search(r'([\d,]+)～([\d,]+)', text).group(1), <<>> when nothing matches
OndeckRangeLower(text) ==
  LET IsDC(c) == c \in OndeckDigitOrComma
      idx == {i \in 2..(Len(text) - 1) :
                text[i] = "fwtilde" /\ IsDC(text[i - 1]) /\ IsDC(text[i + 1])}
      t   == CHOOSE i \in idx : \A j \in idx : i <= j
      starts == {s \in 1..(t - 1) : \A j \in s..(t - 1) : IsDC(text[j])}
  IN IF idx = {} THEN <<>>
     ELSE SubSeq(text, CHOOSE s \in starts : \A j \in starts : s <= j, t - 1)

\* re.search(r'([\d,]+)', text).group(1), <<>> when nothing matches
OndeckFirstNumber(text) ==
  LET idx == {i \in 1..Len(text) : text[i] \in OndeckDigitOrComma}
  IN IF idx = {} THEN <<>>
     ELSE RunFrom(text, CHOOSE i \in idx : \A j \in idx : i <= j, OndeckDigitOrComma)

\* the threshold of parse_ondeck_revenue, in units of a million yen
OndeckMinRevenueMillions == 300

\* parse_ondeck_revenue: True when the text meets the revenue threshold;
\* int() of a match made of commas only raises ValueError, caught: False
ParseOndeckRevenue(revenue_text) ==
  IF revenue_text = <<>> \/ \E kw \in OndeckKeywords : Contains(revenue_text, kw)
  THEN FALSE
  ELSE LET cleaned_text == StripApprox(revenue_text)
           lower  == OndeckRangeLower(cleaned_text)
           single == OndeckFirstNumber(cleaned_text)
           Int0(m) == RemoveChar(m, ",")
       IN IF lower # <<>>
          THEN Int0(lower) # <<>> /\ DigitsToInt(Int0(lower)) >= OndeckMinRevenueMillions
          ELSE IF single # <<>>
          THEN Int0(single) # <<>> /\ DigitsToInt(Int0(single)) >= OndeckMinRevenueMillions
          ELSE FALSE

(***************************************************************************)
(* format_deal_data (main.py, main2.py, main3.py) and main's loop around it*)
(***************************************************************************)
\* site names: MASouken = M&A総合研究所, MARoyal = M&Aロイヤルアドバイザリー,
\* NihonMA = 日本M&Aセンター, Ondeck = オンデック, SpeedMA = スピードM&A
SitesOf(v) ==
  CASE v = "main"  -> <<"MASouken", "MARoyal">>
    [] v = "main2" -> <<"NihonMA", "Ondeck">>
    [] v = "main3" -> <<"SpeedMA">>

\* main.py: sites whose financial check format_deal_data skips
ExemptSites == {"MASouken", "MACapital", "Strike"}

DealIds == {<<"1">>, <<"2">>}
Links == {<<>>, <<"u">>}
Text5Oku == <<"5", "oku", "en">>
Text2000Man == <<"2", ",", "0", "0", "0", "man", "en">>
\* (revenue_text, profit_text) of the model's deals
FinPairs == {<<Text5Oku, Text5Oku>>, <<Text5Oku, Text2000Man>>, <<KwHikoukai, <<>> >>}

RawDealsOf(site) ==
  {[site_name |-> site, deal_id |-> id, link |-> l,
    revenue_text |-> fp[1], profit_text |-> fp[2]] :
     id \in DealIds, l \in Links, fp \in FinPairs}

\* every list of 1..n elements of S
ListsUpTo(S, n) == UNION {[1..k -> S] : k \in 1..n}

\* hashlib.md5(key.encode()).hexdigest()[:12]: a digest of the key string,
\* here a positional code of its characters (no two keys of the model collide)
KeyAlphabet == <<"_", "1", "2", "u", "MASouken", "MARoyal", "NihonMA", "Ondeck", "SpeedMA">>
CharCode(c) == CHOOSE k \in 1..Len(KeyAlphabet) : KeyAlphabet[k] = c
RECURSIVE Md5Prefix(_)
Md5Prefix(key) ==
  IF key = <<>> THEN 0
  ELSE (Len(KeyAlphabet) + 1) * Md5Prefix(SubSeq(key, 1, Len(key) - 1))
       + CharCode(key[Len(key)])

\* f"{raw_deal.site_name}_{raw_deal.deal_id}" digest; main2.py uses the link
\* instead of the deal_id when the link is not empty
UniqueIdOf(v, d) ==
  IF v = "main2" /\ d.link # <<>>
  THEN Md5Prefix(<<d.site_name, "_">> \o d.link)
  ELSE Md5Prefix(<<d.site_name, "_">> \o d.deal_id)

\* if unique_id in existing_ids: continue
IsDuplicateMut(uid, ids) == FALSE
IsDuplicate(uid, ids) == uid \in ids

\* the financial criteria of format_deal_data (main2.py has none)
FailsCriteria(v, d) ==
  CASE v = "main" ->
         /\ d.site_name \notin ExemptSites
         /\ \/ MainParseFinancialValue(d.revenue_text) < MinRevenueDefault
            \/ MainParseFinancialValue(d.profit_text) < MinProfitDefault
    [] v = "main3" ->
         LET revenue_value == SpeedMAParseFinancialValue(d.revenue_text)
             profit_value  == SpeedMAParseFinancialValue(d.profit_text)
         IN \/ (revenue_value > 0 /\ revenue_value < MinRevenueDefault)
            \/ (profit_value > 0 /\ profit_value < MinProfitDefault)
    [] v = "main2" -> FALSE

\* existing_ids.add(unique_id): main2.py only
IdsAfterAcceptMut(v, ids, uid) == ids
IdsAfterAccept(v, ids, uid) == IF v = "main2" THEN ids \cup {uid} ELSE ids

FormattedDeal(d, uid) ==
  [site_name |-> d.site_name, deal_id |-> d.deal_id, link |-> d.link,
   unique_id |-> uid]

FmtIdle ==
  /\ variant = "none" /\ existing_ids = {} /\ f_raw_deals = <<>> /\ f_i = 0
  /\ formatted_deals = <<>> /\ all_new_deals = <<>> /\ f_pc = "off" /\ f_calls = 0

FormatInit ==
  /\ variant \in {"main", "main2", "main3"}
  /\ existing_ids \in SUBSET {UniqueIdOf(variant, d) :
        d \in {x \in RawDealsOf(SitesOf(variant)[1]) : x.deal_id = <<"1">>}}
  /\ f_raw_deals = <<>> /\ f_i = 0 /\ formatted_deals = <<>>
  /\ all_new_deals = <<>> /\ f_pc = "idle" /\ f_calls = 0

\* main: the source gave no raw deals, format_deal_data is not called
FormatSkipSource ==
  /\ f_pc = "idle" /\ f_calls < Len(SitesOf(variant))
  /\ f_calls' = f_calls + 1
  /\ UNCHANGED <<variant, existing_ids, f_raw_deals, f_i, formatted_deals,
                 all_new_deals, f_pc>>
  /\ UNCHANGED <<detVars, netVars, mainVars, convVars, extVars, winVars>>

\* main: formatted_deals = format_deal_data(enhanced_deals, existing_ids)
FormatCall ==
  /\ f_pc = "idle" /\ f_calls < Len(SitesOf(variant))
  /\ \E deals \in ListsUpTo(RawDealsOf(SitesOf(variant)[f_calls + 1]), MaxDeals) :
       f_raw_deals' = deals
  /\ f_i' = 0 /\ formatted_deals' = <<>> /\ f_pc' = "loop"
  /\ f_calls' = f_calls + 1
  /\ UNCHANGED <<variant, existing_ids, all_new_deals>>
  /\ UNCHANGED <<detVars, netVars, mainVars, convVars, extVars, winVars>>

\* one iteration of "for raw_deal in raw_deals"
FormatStep ==
  /\ f_pc = "loop" /\ f_i < Len(f_raw_deals)
  /\ LET raw_deal  == f_raw_deals[f_i + 1]
         unique_id == UniqueIdOf(variant, raw_deal)
     IN IF IsDuplicate(unique_id, existing_ids)
        THEN UNCHANGED <<existing_ids, formatted_deals>>
        ELSE /\ existing_ids' = IdsAfterAccept(variant, existing_ids, unique_id)
             /\ formatted_deals' =
                  IF FailsCriteria(variant, raw_deal) THEN formatted_deals
                  ELSE Append(formatted_deals, FormattedDeal(raw_deal, unique_id))
  /\ f_i' = f_i + 1
  /\ UNCHANGED <<variant, f_raw_deals, all_new_deals, f_pc, f_calls>>
  /\ UNCHANGED <<detVars, netVars, mainVars, convVars, extVars, winVars>>

\* return formatted_deals; main: all_new_deals.extend(formatted_deals)
FormatReturn ==
  /\ f_pc = "loop" /\ f_i = Len(f_raw_deals)
  /\ all_new_deals' = all_new_deals \o formatted_deals
  /\ f_pc' = "idle"
  /\ UNCHANGED <<variant, existing_ids, f_raw_deals, f_i, formatted_deals, f_calls>>
  /\ UNCHANGED <<detVars, netVars, mainVars, convVars, extVars, winVars>>

(***************************************************************************)
(* enhance_deals_with_details (main.py, main3.py) with the detail fetches  *)
(* fetch_features_with_blocking_protection,                                *)
(* enhance_strike_deal_with_details_protected (main.py) and                *)
(* SpeedMADetailScraper.enhance_deal_with_details (main3.py)               *)
(***************************************************************************)
\* what a driver.get + page_source can give: a normal page, a page that
\* is_blocked_response recognises, or a WebDriverException
LoadOutcomes == {"ok", "blocked", "error"}

DetailInputs ==
  UNION {{ds \in [1..n -> [id : 1..n, has_link : BOOLEAN]] :
            \A k \in 1..n : ds[k].id = k} : n \in 1..MaxDetailDeals}

NoHistory == [k \in 1..MaxDetailDeals + 1 |-> "none"]
NoLoads == [k \in 1..MaxDetailDeals + 1 |-> 0]

\* loop head of enhance_deals_with_details: if anti_blocking.blocked_detected
BlockedCheckMut(flag) == FALSE
BlockedCheck(flag) == flag

\* the fetch after a first response that is a block page:
\* "if not blocked_detected:" recover, "else:" give up; main3.py never recovers
StartsRecovery(site, flag) == site # "speedma" /\ ~flag

\* blocked_detected after the first block page of a fetch
FlagAfterFirstBlock(site, flag) == IF site = "speedma" THEN flag ELSE TRUE

\* where the fetch goes after the recovery load: it returns, whatever the page
AfterRecoveryMut(outcome) == IF outcome = "blocked" THEN "recover" ELSE "head"
AfterRecovery(outcome) == "head"

\* blocked_detected after the recovery load
FlagAfterRecoveryMut(outcome, flag) == flag
FlagAfterRecovery(outcome, flag) == IF outcome = "ok" THEN FALSE ELSE flag

\* the page the extraction reads after the recovery load (html_content = retry_html)
PageAfterRecovery(outcome) == IF outcome = "ok" THEN "retry" ELSE "none"

\* fetch_features_with_blocking_protection returns "-" without a load when
\* the deal has no link; the Strike and SpeedM&A fetches call driver.get anyway
LoadsWithoutLink(site) == site # "standard"

DetIdle ==
  /\ d_site = "none" /\ d_raw_deals = <<>> /\ d_i = 0 /\ d_pc = "off"
  /\ blocked_detected = FALSE /\ enhanced_deals = <<>> /\ d_loads = NoLoads
  /\ d_first = NoHistory /\ d_recov = NoHistory /\ driver = "none"

DetailInit ==
  /\ d_site \in {"standard", "strike", "speedma"}
  /\ d_raw_deals \in DetailInputs
  /\ d_i = 0 /\ d_pc = "init" /\ blocked_detected = FALSE
  /\ enhanced_deals = <<>> /\ d_loads = NoLoads
  /\ d_first = NoHistory /\ d_recov = NoHistory /\ driver = "none"

Plain(deal) == [id |-> deal.id, detail |-> "none"]

\* anti_blocking = AntiBlockingManager(); with WebDriverManager(...) as driver:
\* __enter__ either gives the driver or raises, before or after the browser
\* was created; on a raise enhance_deals_with_details returns raw_deals
EnhanceStart ==
  /\ d_pc = "init"
  /\ \E init \in {"ok", "raise_before_create", "raise_after_create"} :
       IF init = "ok"
       THEN /\ driver' = "running" /\ d_pc' = "head" /\ d_i' = 1
            /\ UNCHANGED enhanced_deals
       ELSE /\ driver' = IF init = "raise_after_create" THEN "running" ELSE "none"
            /\ d_pc' = "done" /\ d_i' = d_i
            /\ enhanced_deals' = [k \in 1..Len(d_raw_deals) |-> Plain(d_raw_deals[k])]
  /\ UNCHANGED <<d_site, d_raw_deals, blocked_detected, d_loads, d_first, d_recov>>
  /\ UNCHANGED <<fmtVars, netVars, mainVars, convVars, extVars, winVars>>

\* raw_deals[i-1:] of "for i, deal in enumerate(raw_deals, 1)": the 0-based
\* index the slice starts at
SkipSliceStartMut(i) == i
SkipSliceStart(i) == i - 1

\* loop head with the flag set: enhanced_deals.extend(raw_deals[i-1:]); break
DetailSkipRemaining ==
  /\ d_pc = "head" /\ d_i <= Len(d_raw_deals)
  /\ BlockedCheck(blocked_detected)
  /\ enhanced_deals' = enhanced_deals \o
       SubSeq([k \in 1..Len(d_raw_deals) |-> Plain(d_raw_deals[k])],
              SkipSliceStart(d_i) + 1, Len(d_raw_deals))
  /\ d_i' = Len(d_raw_deals) + 1
  /\ UNCHANGED <<d_site, d_raw_deals, d_pc, blocked_detected, d_loads, d_first,
                 d_recov, driver>>
  /\ UNCHANGED <<fmtVars, netVars, mainVars, convVars, extVars, winVars>>

\* the fetch of deal d_i up to its first response
DetailFirstLoad ==
  /\ d_pc = "head" /\ d_i <= Len(d_raw_deals)
  /\ ~BlockedCheck(blocked_detected)
  /\ LET deal == d_raw_deals[d_i]
     IN IF ~deal.has_link /\ ~LoadsWithoutLink(d_site)
        THEN \* if not detail_url: return "-"
             /\ enhanced_deals' = Append(enhanced_deals, Plain(deal))
             /\ d_i' = d_i + 1
             /\ UNCHANGED <<d_pc, blocked_detected, d_loads, d_first, d_recov>>
        ELSE \E outcome \in LoadOutcomes :
             /\ (~deal.has_link => outcome = "error")
             /\ d_loads' = [d_loads EXCEPT ![d_i] = @ + 1]
             /\ d_first' = [d_first EXCEPT ![d_i] = outcome]
             /\ UNCHANGED d_recov
             /\ IF outcome = "blocked" /\ StartsRecovery(d_site, blocked_detected)
                THEN /\ blocked_detected' = FlagAfterFirstBlock(d_site, blocked_detected)
                     /\ d_pc' = "recover"
                     /\ UNCHANGED <<enhanced_deals, d_i>>
                ELSE /\ blocked_detected' =
                          IF outcome = "blocked"
                          THEN FlagAfterFirstBlock(d_site, blocked_detected)
                          ELSE blocked_detected
                     /\ enhanced_deals' = Append(enhanced_deals,
                          [id |-> deal.id,
                           detail |-> IF outcome = "ok" THEN "first" ELSE "none"])
                     /\ d_i' = d_i + 1
                     /\ UNCHANGED d_pc
  /\ UNCHANGED <<d_site, d_raw_deals, driver>>
  /\ UNCHANGED <<fmtVars, netVars, mainVars, convVars, extVars, winVars>>

\* after the recovery delay: driver.get(detail_url) again, then the fetch returns
DetailRecoveryLoad ==
  /\ d_pc = "recover"
  /\ \E outcome \in LoadOutcomes :
       /\ d_loads' = [d_loads EXCEPT ![d_i] = @ + 1]
       /\ d_recov' = [d_recov EXCEPT ![d_i] = outcome]
       /\ blocked_detected' = FlagAfterRecovery(outcome, blocked_detected)
       /\ d_pc' = AfterRecovery(outcome)
       /\ IF AfterRecovery(outcome) = "head"
          THEN /\ enhanced_deals' = Append(enhanced_deals,
                    [id |-> d_raw_deals[d_i].id, detail |-> PageAfterRecovery(outcome)])
               /\ d_i' = d_i + 1
          ELSE UNCHANGED <<enhanced_deals, d_i>>
  /\ UNCHANGED <<d_site, d_raw_deals, d_first, driver>>
  /\ UNCHANGED <<fmtVars, netVars, mainVars, convVars, extVars, winVars>>

\* the loop is over: WebDriverManager.__exit__ quits the browser, the list is returned
EnhanceReturn ==
  /\ d_pc = "head" /\ d_i = Len(d_raw_deals) + 1
  /\ driver' = "quit" /\ d_pc' = "done"
  /\ UNCHANGED <<d_site, d_raw_deals, d_i, blocked_detected, enhanced_deals,
                 d_loads, d_first, d_recov>>
  /\ UNCHANGED <<fmtVars, netVars, mainVars, convVars, extVars, winVars>>

(***************************************************************************)
(* The list crawl: scrape_site (main.py), scrape_speed_ma (main3.py),      *)
(* scrape_nihon_ma_center (main2.py), and fetch_html under                 *)
(* retry_on_failure                                                        *)
(***************************************************************************)
\* how one client.get + raise_for_status can end: a page, an empty body, a
\* body of fewer than 100 characters, httpx.TimeoutException, a 5xx or 4xx
\* status, or any other exception (for instance httpx.ConnectError)
RequestOutcomes == {"ok", "empty", "short", "timeout", "5xx", "4xx", "other"}

\* retry_on_failure(max_retries: int = 3, ...) of main2.py and main3.py
DecoratorMaxRetries == 3
\* max_pages = 3 of scrape_nihon_ma_center
NihonMaxPages == 3

\* fetch_html: the outcomes it turns into httpx.RequestError
\* (TimeoutException, HTTPStatusError with status_code >= 500)
RaisesRequestErrorMut(outcome) == outcome \in {"timeout", "5xx", "4xx"}
RaisesRequestError(outcome) == outcome \in {"timeout", "5xx"}

\* retry_on_failure: if attempt == max_retries - 1: raise
IsLastAttemptMut(a, mr) == a = mr
IsLastAttempt(a, mr) == a = mr - 1

\* what fetch_html returns for an outcome it does not raise on:
\* main2.py returns None for content shorter than 100 characters
FetchReturns(script, outcome) ==
  CASE outcome = "ok" -> "html"
    [] outcome = "short" -> IF script = "main2" THEN "None" ELSE "html"
    [] outcome = "empty" -> IF script = "main2" THEN "None" ELSE "empty"
    [] OTHER -> "None"

\* the caller: if not html_content: log the failure, continue
CallerSkips(result) == result \in {"None", "empty"}

NoPages == [p \in 1..MaxPages + 1 |-> "none"]
NoCounts == [p \in 1..MaxPages + 1 |-> 0]
NoWaits == [p \in 1..MaxPages + 1 |-> <<>>]

\* retry_on_failure(..., delay: int = 1) of main2.py and main3.py
DecoratorDelay == 1
\* values of retry_delay in the configuration of main.py
ConfiguredDelays == {1, 2}

\* time.sleep(delay * (attempt + 1))
SleepTime(delay, a) == delay * (a + 1)

PaginationTypes == {"none", "query_param", "path"}

\* the url of list page page_num.  scrape_site (main.py): base_url?param=n,
\* base_url + path_template.format(page_num=n), or base_url when no
\* pagination type is set.  scrape_speed_ma and scrape_nihon_ma_center:
\* base_url for page 1, base_url?p=n after it.
UrlOf(script, pag_type, n) ==
  IF script = "main"
  THEN CASE pag_type = "query_param" -> <<"base_url", "?param=", n>>
         [] pag_type = "path" -> <<"base_url", "path", n>>
         [] OTHER -> <<"base_url">>
  ELSE IF n = 1 THEN <<"base_url">> ELSE <<"base_url", "?p=", n>>

NetIdle ==
  /\ n_script = "none" /\ max_pages = 0 /\ max_retries = 0 /\ page_num = 0
  /\ attempt = 0 /\ n_pc = "off" /\ requests = NoCounts /\ sleeps = NoCounts
  /\ first_outcome = NoPages /\ last_outcome = NoPages /\ page_log = NoPages
  /\ all_deals = <<>> /\ retry_delay = 0 /\ waits = NoWaits
  /\ pagination = "none" /\ urls = <<>>

NetInit ==
  /\ n_script \in {"main", "main2", "main3"}
  /\ max_pages \in IF n_script = "main2" THEN {NihonMaxPages} ELSE 1..MaxPages
  /\ max_retries \in IF n_script = "main" THEN 0..MaxRetries ELSE {DecoratorMaxRetries}
  /\ page_num = 1 /\ attempt = 0 /\ n_pc = "loop"
  /\ requests = NoCounts /\ sleeps = NoCounts
  /\ first_outcome = NoPages /\ last_outcome = NoPages /\ page_log = NoPages
  /\ all_deals = <<>>
  /\ retry_delay \in IF n_script = "main" THEN ConfiguredDelays ELSE {DecoratorDelay}
  /\ waits = NoWaits
  /\ pagination \in IF n_script = "main" THEN PaginationTypes ELSE {"query_param"}
  /\ urls = <<>>

\* for page_num in range(1, max_pages + 1): ... html_content = fetch_html(url)
\* enters retry_on_failure's wrapper
ScrapePage ==
  /\ n_pc = "loop" /\ page_num <= max_pages
  /\ attempt' = 0 /\ n_pc' = "fetch"
  /\ urls' = Append(urls, UrlOf(n_script, pagination, page_num))
  /\ UNCHANGED <<n_script, max_pages, max_retries, page_num, requests, sleeps,
                 first_outcome, last_outcome, page_log, all_deals, retry_delay,
                 waits, pagination>>
  /\ UNCHANGED <<fmtVars, detVars, mainVars, convVars, extVars, winVars>>

\* range(max_retries) is exhausted without a return or a raise: the wrapper
\* returns None and the caller skips the page
FetchLoopEnds ==
  /\ n_pc = "fetch" /\ attempt >= max_retries
  /\ page_log' = [page_log EXCEPT ![page_num] = "skipped"]
  /\ page_num' = page_num + 1 /\ n_pc' = "loop"
  /\ UNCHANGED <<n_script, max_pages, max_retries, attempt, requests, sleeps,
                 first_outcome, last_outcome, all_deals, retry_delay, waits,
                 pagination, urls>>
  /\ UNCHANGED <<fmtVars, detVars, mainVars, convVars, extVars, winVars>>

\* one pass of "for attempt in range(max_retries)": one request of fetch_html
\* and what the wrapper and the caller do with its outcome
FetchAttempt ==
  /\ n_pc = "fetch" /\ attempt < max_retries
  /\ \E outcome \in RequestOutcomes :
       /\ requests' = [requests EXCEPT ![page_num] = @ + 1]
       /\ last_outcome' = [last_outcome EXCEPT ![page_num] = outcome]
       /\ first_outcome' = IF requests[page_num] = 0
                           THEN [first_outcome EXCEPT ![page_num] = outcome]
                           ELSE first_outcome
       /\ IF RaisesRequestError(outcome)
          THEN IF IsLastAttempt(attempt, max_retries)
               THEN \* raise: caught by the except of the scrape function
                    /\ page_log' = [page_log EXCEPT ![page_num] = "raised"]
                    /\ n_pc' = "done"
                    /\ UNCHANGED <<attempt, sleeps, waits, page_num, all_deals>>
               ELSE \* time.sleep(delay * (attempt + 1))
                    /\ sleeps' = [sleeps EXCEPT ![page_num] = @ + 1]
                    /\ waits' = [waits EXCEPT ![page_num] =
                                   Append(@, SleepTime(retry_delay, attempt))]
                    /\ attempt' = attempt + 1
                    /\ UNCHANGED <<page_log, n_pc, page_num, all_deals>>
          ELSE /\ IF CallerSkips(FetchReturns(n_script, outcome))
                  THEN /\ page_log' = [page_log EXCEPT ![page_num] = "skipped"]
                       /\ UNCHANGED all_deals
                  ELSE /\ page_log' = [page_log EXCEPT ![page_num] = "parsed"]
                       /\ all_deals' = Append(all_deals, page_num)
               /\ page_num' = page_num + 1 /\ n_pc' = "loop"
               /\ UNCHANGED <<attempt, sleeps, waits>>
  /\ UNCHANGED <<n_script, max_pages, max_retries, retry_delay, pagination, urls>>
  /\ UNCHANGED <<fmtVars, detVars, mainVars, convVars, extVars, winVars>>

\* the loop is over: return all_deals
ScrapeReturn ==
  /\ n_pc = "loop" /\ page_num > max_pages
  /\ n_pc' = "done"
  /\ UNCHANGED <<n_script, max_pages, max_retries, page_num, attempt, requests,
                 sleeps, first_outcome, last_outcome, page_log, all_deals,
                 retry_delay, waits, pagination, urls>>
  /\ UNCHANGED <<fmtVars, detVars, mainVars, convVars, extVars, winVars>>

(***************************************************************************)
(* main (main.py, main2.py): GSheetConnector, get_existing_ids, the        *)
(* sources one after the other, write_deals                                *)
(***************************************************************************)
\* the sources of a run, in the order main processes them
MainSources == <<"MASouken", "MARoyal">>
Main2Sources == <<"NihonMA", "Ondeck">>
SourcesOf(script) == IF script = "main2" THEN Main2Sources ELSE MainSources

\* the unique_ids the sources of the run can yield: (source, listing)
IdPool(script) ==
  {<<SourcesOf(script)[k], n>> : k \in 1..Len(SourcesOf(script)), n \in 1..2}
IdsOfSource(script, k) == {id \in IdPool(script) : id[1] = SourcesOf(script)[k]}

\* main: "if not sheet_connector.worksheet: return"
AbortsWithoutWorksheet(ws) == ws = "None"

\* GSheetConnector.get_existing_ids: the ids of the sheet, or set() when
\* get_all_records raises (the exception is logged and swallowed)
GetExistingIds(sheet, outcome) == IF outcome = "ok" THEN sheet ELSE {}

\* format_deal_data of main.py on unique_ids: keeps the ids not in existing_ids
RECURSIVE KeepUnknown(_, _)
KeepUnknown(ids, known) ==
  IF ids = <<>> THEN <<>>
  ELSE IF IsDuplicate(ids[1], known) THEN KeepUnknown(Tail(ids), known)
       ELSE <<ids[1]>> \o KeepUnknown(Tail(ids), known)

\* format_deal_data of main2.py on unique_ids: every accepted id joins
\* existing_ids before the next record is looked at
RECURSIVE KeepUnknownAdding(_, _)
KeepUnknownAdding(ids, known) ==
  IF ids = <<>> THEN <<>>
  ELSE IF IsDuplicate(ids[1], known) THEN KeepUnknownAdding(Tail(ids), known)
       ELSE <<ids[1]>> \o KeepUnknownAdding(Tail(ids), known \cup {ids[1]})

SeqToSet(q) == {q[k] : k \in 1..Len(q)}

\* the stage of a source at which an error comes up ("none": no error)
SourceStages == {"none", "list", "detail", "format"}

\* where main goes after an error in a source.  main.py: the error reaches
\* "except Exception ... continue" of the loop over the sources.  main2.py:
\* the error is caught inside the stage (scrape_*, enhance_*,
\* format_deal_data) and main goes on with the next block.
PcAfterSourceErrorMut(script) == "done"
PcAfterSourceError(script) == "sources"

\* what the source hands to all_new_deals when an error came up at a stage.
\* main.py: the except of main is reached before extend, nothing is handed
\* over.  main2.py: the stage drops the page or record that failed and goes on.
HandedOver(script, stage, found, known) ==
  CASE stage = "none" ->
         IF script = "main2" THEN KeepUnknownAdding(found, known)
         ELSE KeepUnknown(found, known)
    [] script = "main2" ->
         KeepUnknownAdding(SubSeq(found, 1, Len(found) - 1), known)
    [] OTHER -> <<>>

\* existing_ids after the source: format_deal_data of main2.py adds every id
\* it accepts, also the id of a record whose conversion then raises
ExistingAfterSource(script, stage, found, known) ==
  IF script # "main2" THEN known
  ELSE IF stage \in {"none", "format"} THEN known \cup SeqToSet(found)
  ELSE known \cup SeqToSet(SubSeq(found, 1, Len(found) - 1))

\* write_deals of main2.py reads the ids again ("current_existing_ids =
\* self.get_existing_ids()"); write_deals of main.py does not
WriteReadsIds(script) == script = "main2"

\* the rows write_deals appends: main2.py drops the deals whose id the
\* second read returned
RowsToAppend(script, new_deals, current_ids) ==
  IF WriteReadsIds(script)
  THEN SelectSeq(new_deals, LAMBDA id : id \notin current_ids)
  ELSE new_deals

NoStages == [k \in 1..2 |-> "none"]
NoLists == [k \in 1..2 |-> <<>>]

MainIdle ==
  /\ m_pc = "off" /\ sheet_ids = {} /\ worksheet = "none" /\ m_read = "none"
  /\ m_existing = {} /\ m_site = 0 /\ m_fetches = 0 /\ m_new = <<>>
  /\ m_appended = <<>> /\ m_script = "none" /\ m_raised = NoStages
  /\ m_found = NoLists /\ m_store = <<>> /\ m_write = "none"
  /\ m_final = <<>> /\ m_others = 0

MainInit ==
  /\ m_script \in {"main", "main2"}
  /\ m_pc = "start" /\ sheet_ids \in SUBSET IdPool(m_script) /\ worksheet = "none"
  /\ m_read = "none" /\ m_existing = {} /\ m_site = 0 /\ m_fetches = 0
  /\ m_new = <<>> /\ m_appended = <<>> /\ m_raised = NoStages
  /\ m_found = NoLists /\ m_store = <<>> /\ m_write = "none"
  /\ m_final = <<>> /\ m_others = 0

\* sheet_connector = GSheetConnector(CONFIG); if not worksheet: return
MainConnect ==
  /\ m_pc = "start"
  /\ \E ws \in {"ok", "None"} :
       /\ worksheet' = ws
       /\ m_pc' = IF AbortsWithoutWorksheet(ws) THEN "done" ELSE "connected"
  /\ UNCHANGED <<sheet_ids, m_read, m_existing, m_site, m_fetches, m_new,
                 m_appended, m_script, m_raised, m_found, m_store, m_write,
                 m_final, m_others>>
  /\ UNCHANGED <<fmtVars, detVars, netVars, convVars, extVars, winVars>>

\* existing_ids = sheet_connector.get_existing_ids()
MainGetExistingIds ==
  /\ m_pc = "connected"
  /\ \E outcome \in {"ok", "failed"} :
       /\ m_read' = outcome
       /\ m_existing' = GetExistingIds(sheet_ids, outcome)
  /\ m_store' = Append(m_store, "read")
  /\ m_pc' = "sources"
  /\ UNCHANGED <<sheet_ids, worksheet, m_site, m_fetches, m_new, m_appended,
                 m_script, m_raised, m_found, m_write, m_final, m_others>>
  /\ UNCHANGED <<fmtVars, detVars, netVars, convVars, extVars, winVars>>

\* one source: the list crawl fetches the list page, the detail stage a
\* detail page per deal, format_deal_data drops the known ids; an error may
\* come up at one of the stages
MainProcessSource ==
  /\ m_pc = "sources" /\ m_site < Len(SourcesOf(m_script))
  /\ \E found \in {<<>>} \cup ListsUpTo(IdsOfSource(m_script, m_site + 1), MaxFound),
        stage \in SourceStages :
       /\ (stage # "none" => found # <<>>)
       /\ m_fetches' = m_fetches + 1 + Len(found)
       /\ m_found' = [m_found EXCEPT ![m_site + 1] =
                        HandedOver(m_script, stage, found, m_existing)]
       /\ m_new' = m_new \o HandedOver(m_script, stage, found, m_existing)
       /\ m_existing' = ExistingAfterSource(m_script, stage, found, m_existing)
       /\ m_raised' = [m_raised EXCEPT ![m_site + 1] = stage]
       /\ m_pc' = IF stage = "none" THEN "sources" ELSE PcAfterSourceError(m_script)
  /\ m_site' = m_site + 1
  /\ UNCHANGED <<sheet_ids, worksheet, m_read, m_appended, m_script, m_store,
                 m_write, m_final, m_others>>
  /\ UNCHANGED <<fmtVars, detVars, netVars, convVars, extVars, winVars>>

\* if all_new_deals: sheet_connector.write_deals(all_new_deals)
\* write_deals swallows the exceptions of the sheet API.  write_deals of
\* main.py appends new_deals as they are; write_deals of main2.py first
\* reads the ids again and keeps the deals the read did not return
MainWrite ==
  /\ m_pc = "sources" /\ m_site = Len(SourcesOf(m_script))
  /\ IF m_new = <<>>
     THEN /\ m_write' = "skipped" /\ m_pc' = "done"
          /\ UNCHANGED <<m_appended, sheet_ids, m_store, m_final>>
     ELSE IF WriteReadsIds(m_script)
     THEN \E second_read \in {"ok", "failed"} :
            /\ m_final' = RowsToAppend(m_script, m_new,
                                       GetExistingIds(sheet_ids, second_read))
            /\ m_store' = Append(m_store, "read")
            /\ IF m_final' = <<>>
               THEN m_write' = "nothing" /\ m_pc' = "done"
               ELSE m_write' = m_write /\ m_pc' = "writing"
            /\ UNCHANGED <<m_appended, sheet_ids>>
     ELSE \E api \in {"ok", "failed"} :
            /\ m_final' = RowsToAppend(m_script, m_new, {})
            /\ m_pc' = "done"
            /\ IF api = "failed"
               THEN /\ m_write' = "failed"
                    /\ UNCHANGED <<m_appended, sheet_ids, m_store>>
               ELSE /\ m_write' = "ok"
                    /\ m_store' = Append(m_store, "append")
                    /\ m_appended' = m_final'
                    /\ sheet_ids' = sheet_ids \cup SeqToSet(m_final')
  /\ UNCHANGED <<worksheet, m_read, m_existing, m_site, m_fetches, m_new,
                 m_script, m_raised, m_found, m_others>>
  /\ UNCHANGED <<fmtVars, detVars, netVars, convVars, extVars, winVars>>

\* write_deals of main2.py after its read: get_all_values, append_rows
MainAppendRows ==
  /\ m_pc = "writing"
  /\ \E api \in {"ok", "failed"} :
       IF api = "failed"
       THEN /\ m_write' = "failed"
            /\ UNCHANGED <<m_appended, sheet_ids, m_store>>
       ELSE /\ m_write' = "ok"
            /\ m_store' = Append(m_store, "append")
            /\ m_appended' = m_final
            /\ sheet_ids' = sheet_ids \cup SeqToSet(m_final)
  /\ m_pc' = "done"
  /\ UNCHANGED <<worksheet, m_read, m_existing, m_site, m_fetches, m_new,
                 m_script, m_raised, m_found, m_final, m_others>>
  /\ UNCHANGED <<fmtVars, detVars, netVars, convVars, extVars, winVars>>

\* another process (a second run of the scraper, a user) appends a row to
\* the sheet while this run is between its connection and its own append
OtherProcessAppends ==
  /\ m_pc \in {"connected", "sources", "writing"} /\ m_others < MaxOtherAppends
  /\ \E id \in IdPool(m_script) \ sheet_ids : sheet_ids' = sheet_ids \cup {id}
  /\ m_others' = m_others + 1
  /\ UNCHANGED <<m_pc, worksheet, m_read, m_existing, m_site, m_fetches, m_new,
                 m_appended, m_script, m_raised, m_found, m_store, m_write,
                 m_final>>
  /\ UNCHANGED <<fmtVars, detVars, netVars, convVars, extVars, winVars>>

(***************************************************************************)
(* The financial parsers applied to one text, and the threshold test       *)
(***************************************************************************)
\* the amounts of the model's texts, with the yen value they denote
AmountTable ==
  << [text |-> <<"1", "oku", "en">>, value |-> 100000000],
     [text |-> <<"2", "oku", "en">>, value |-> 200000000],
     [text |-> <<"3", "oku", "en">>, value |-> 300000000],
     [text |-> <<"F5", "oku", "en">>, value |-> 500000000],
     [text |-> <<"5", ",", "0", "0", "0", "man", "en">>, value |-> 50000000] >>
Amounts == {AmountTable[k] : k \in 1..Len(AmountTable)}

RangeSeparators == {"wave", "fwtilde"}
NegativeMarkers == {"-", "btri", "wtri"}
DenylistMarkers == {KwHikoukai, KwOusoudan, KwMasked}

\* texts of the listings, each with what it denotes: kind, lower and upper value
SingleInputs ==
  {[text |-> a.text, kind |-> "single", lo |-> a.value, hi |-> a.value] : a \in Amounts}
RangeInputs ==
  {[text |-> p[1].text \o <<s>> \o p[2].text, kind |-> "range",
    lo |-> p[1].value, hi |-> p[2].value] :
     s \in RangeSeparators,
     p \in {q \in Amounts \X Amounts : q[1].value < q[2].value}}
NegativeInputs ==
  {[text |-> <<m>> \o a.text, kind |-> "negative", lo |-> 0 - a.value, hi |-> 0 - a.value] :
     m \in NegativeMarkers, a \in Amounts}
DenylistedInputs ==
  UNION {{[text |-> m, kind |-> "denylisted", lo |-> 0, hi |-> 0],
          [text |-> m \o a.text, kind |-> "denylisted", lo |-> 0, hi |-> 0],
          [text |-> a.text \o m, kind |-> "denylisted", lo |-> 0, hi |-> 0]} :
            m \in DenylistMarkers, a \in Amounts}
OtherInputs ==
  {[text |-> t, kind |-> "other", lo |-> 0, hi |-> 0] :
     t \in {<<>>, <<"0", "en">>, <<".">>, <<"-">>,
            <<"1", ".", "2", ".", "3", "oku", "en">>,
            <<"5", "0", "0", "man", "en">> \o KwMiman,
            <<"3", "oku", "en">> \o KwIjou,
            <<"btri", "5", "0", "0", "man", "en">> \o KwMiman,
            <<"1", "oku", "en", "fwtilde">>,
            <<"1", ",", "2", "5", "0", "man", "en">>,
            <<"5", "0", "man", "en">>,
            <<"1", ".", "5", "oku", "en">>,
            <<"btri", "1", ",", "0", "0", "0", "man", "en", "wave">>}}
\* the unit tokens of the listings with their scale
UnitTable ==
  << [unit |-> <<"oku">>,          scale |-> 100000000],
     [unit |-> <<"sen", "man">>,   scale |-> 10000000],
     [unit |-> <<"hyaku", "man">>, scale |-> 1000000],
     [unit |-> <<"man">>,          scale |-> 10000],
     [unit |-> <<"sen">>,          scale |-> 1000] >>
UnitCounts == {"3", "F7"}
\* one numeric token followed by one unit token and 円
UnitInputs ==
  {[text |-> <<n>> \o UnitTable[k].unit \o <<"en">>, kind |-> "unit",
    lo |-> DigitValue(ToHalf(n)) * UnitTable[k].scale,
    hi |-> DigitValue(ToHalf(n)) * UnitTable[k].scale] :
     n \in UnitCounts, k \in 1..Len(UnitTable)}
GeneralInputs ==
  SingleInputs \cup RangeInputs \cup NegativeInputs \cup DenylistedInputs
    \cup OtherInputs \cup UnitInputs

\* revenue texts of オンデック, in millions of yen
OndeckInputs ==
  {[text |-> <<"5", "0", "0", "hyaku", "man", "en">>, kind |-> "single",
    lo |-> 500000000, hi |-> 500000000],
   [text |-> <<"yaku", "2", "0", "0", "hyaku", "man", "en">>, kind |-> "single",
    lo |-> 200000000, hi |-> 200000000],
   [text |-> <<"2", "0", "0", "fwtilde", "5", "0", "0", "hyaku", "man", "en">>,
    kind |-> "range", lo |-> 200000000, hi |-> 500000000],
   [text |-> <<"3", "0", "0", "fwtilde", "5", "0", "0", "hyaku", "man", "en">>,
    kind |-> "range", lo |-> 300000000, hi |-> 500000000],
   [text |-> <<"1", "0", "0", "fwtilde", "2", "0", "0", "hyaku", "man", "en">>,
    kind |-> "range", lo |-> 100000000, hi |-> 200000000],
   [text |-> KwOusoudan, kind |-> "denylisted", lo |-> 0, hi |-> 0]}

Parsers == {"main", "main3", "batonz", "masucceed", "btix", "ondeck"}
InputsOf(parser) == IF parser = "ondeck" THEN OndeckInputs ELSE GeneralInputs

\* what the text of the state denotes
MeaningOf(parser, text) == CHOOSE m \in InputsOf(parser) : m.text = text

\* the parser of each script; the two parsers that return one int are
\* recorded as min = max = that int
ParseResult(parser, text) ==
  CASE parser = "main" ->
         Returned(MainParseFinancialValue(text), MainParseFinancialValue(text))
    [] parser = "main3" ->
         Returned(SpeedMAParseFinancialValue(text), SpeedMAParseFinancialValue(text))
    [] parser = "batonz" -> BatonzParseFinancialValue(text)
    [] parser = "masucceed" -> SucceedParseFinancialValue(text)
    [] parser = "btix" -> BtixParseFinancialValue(text)

\* the threshold test each script applies to the parsed revenue: main.py
\* and main3.py (list stage) skip the deal "if revenue_value < min_revenue"
Qualifies(parser, r, threshold) ==
  CASE parser \in {"main", "main3"} -> ~(r.max < threshold)
    [] parser = "batonz" -> BatonzMeetsCondition(r, threshold)
    [] parser \in {"masucceed", "btix"} -> MeetsCondition(r, threshold)

\* ---- display formatting: format_financial_text (main.py) and ----
\* ---- format_to_million_yen (main3.py)                         ----
DigitChar(d) == CHOOSE c \in HalfDigits : DigitValue(c) = d

\* str(n) for n >= 0
RECURSIVE IntToDigits(_)
IntToDigits(n) ==
  IF n < 10 THEN <<DigitChar(n)>>
  ELSE Append(IntToDigits(n \div 10), DigitChar(n % 10))

\* f"{n:,}": the digits in groups of three
RECURSIVE WithCommas(_)
WithCommas(ds) ==
  IF Len(ds) <= 3 THEN ds
  ELSE WithCommas(SubSeq(ds, 1, Len(ds) - 3)) \o <<",">>
         \o SubSeq(ds, Len(ds) - 2, Len(ds))

\* f"{x:.1f}" for x = num / den: one decimal, ties to the even digit
OneDecimal(num, den) ==
  LET q == (10 * num) \div den
      r == (10 * num) % den
      t == IF 2 * r > den \/ (2 * r = den /\ q % 2 = 1) THEN q + 1 ELSE q
  IN IntToDigits(t \div 10) \o <<".">> \o <<DigitChar(t % 10)>>

UnitMillionYen == <<"hyaku", "man", "en">>

\* the last lines of _to_million_format and _convert_to_million, for
\* million_value = num / den
MillionText(text_part, num, den) ==
  IF num >= den
  THEN IF num % den = 0 THEN WithCommas(IntToDigits(num \div den)) \o UnitMillionYen
       ELSE OneDecimal(num, den) \o UnitMillionYen
  ELSE text_part

\* _to_million_format of main.py
ToMillionFormat(text_part) ==
  LET run == FirstNumberRun(RemoveChar(text_part, ","))
      f   == ParseFloat(run)
  IN IF run = <<>> \/ ~f.ok THEN text_part
     ELSE IF Contains(text_part, <<"oku">>)
     THEN MillionText(text_part, f.mant * 100, Pow10(f.dec))
     ELSE IF Contains(text_part, <<"sen", "man">>)
     THEN MillionText(text_part, f.mant * 10, Pow10(f.dec))
     ELSE IF Contains(text_part, UnitMillionYen) THEN text_part
     ELSE IF Contains(text_part, <<"man">>) /\ ~Contains(text_part, <<"hyaku", "man">>)
     THEN MillionText(text_part, f.mant, 100 * Pow10(f.dec))
     ELSE text_part

\* _convert_to_million of main3.py
ConvertToMillion(text_part) ==
  LET run == FirstNumberRun(RemoveChar(text_part, ","))
      f   == ParseFloat(run)
  IN IF run = <<>> \/ ~f.ok THEN text_part
     ELSE IF Contains(text_part, <<"oku">>)
     THEN MillionText(text_part, f.mant * 100, Pow10(f.dec))
     ELSE IF Contains(text_part, <<"sen", "man">>)
     THEN MillionText(text_part, f.mant * 10, Pow10(f.dec))
     ELSE IF Contains(text_part, <<"hyaku", "man">>)
     THEN MillionText(text_part, f.mant, Pow10(f.dec))
     ELSE IF Contains(text_part, <<"man">>)
     THEN MillionText(text_part, f.mant, 100 * Pow10(f.dec))
     ELSE text_part

\* len(text.split(c)) == 2
SplitsInTwo(text, c) == Cardinality({i \in 1..Len(text) : text[i] = c}) = 1

\* main.py DataConverter.format_financial_text
FormatFinancialText(text) ==
  IF text = <<>> THEN KwNA
  ELSE IF \E kw \in MainKeywords : Contains(text, kw) THEN text
  ELSE LET separator == IF Contains(text, <<"fwtilde">>) THEN "fwtilde" ELSE "wave"
       IN IF SplitsInTwo(text, separator)
          THEN ToMillionFormat(BeforeFirst(text, <<separator>>)) \o <<"fwtilde">>
                 \o ToMillionFormat(AfterFirst(text, <<separator>>))
          ELSE ToMillionFormat(text)

\* main3.py SpeedMADataConverter.format_to_million_yen: its range_separators
\* are those of the parser, in another order
RangeSeparators3 == <<"wave", "fwtilde", "-", "?">>

FormatToMillionYen(text) ==
  IF text = <<>> THEN KwNA
  ELSE IF \E kw \in SpeedMAKeywords : Contains(text, kw) THEN text
  ELSE LET hits == {k \in 1..Len(RangeSeparators3) :
                      Contains(text, <<RangeSeparators3[k]>>)}
           separator == RangeSeparators3[CHOOSE k \in hits : \A j \in hits : k <= j]
       IN IF hits # {} /\ SplitsInTwo(text, separator)
          THEN ConvertToMillion(BeforeFirst(text, <<separator>>)) \o <<"fwtilde">>
                 \o ConvertToMillion(AfterFirst(text, <<separator>>))
          ELSE ConvertToMillion(text)

\* the formatter of each script
DisplayText(parser, text) ==
  IF parser = "main" THEN FormatFinancialText(text) ELSE FormatToMillionYen(text)

ConvIdle ==
  /\ c_parser = "none" /\ c_text = <<>> /\ c_pc = "off"
  /\ c_result = <<>> /\ c_qualifies = FALSE
  /\ c_display = <<>> /\ c_redisplay = <<>>

ConvInit ==
  /\ c_parser \in Parsers
  /\ c_text \in {m.text : m \in InputsOf(c_parser)}
  /\ c_pc = "input" /\ c_result = <<>> /\ c_qualifies = FALSE
  /\ c_display = <<>> /\ c_redisplay = <<>>

\* revenue_range = parse_financial_value(revenue_str)
ConvParse ==
  /\ c_pc = "input" /\ c_parser # "ondeck"
  /\ c_result' = ParseResult(c_parser, c_text)
  /\ c_pc' = "parsed"
  /\ UNCHANGED <<c_parser, c_text, c_qualifies, c_display, c_redisplay>>
  /\ UNCHANGED <<fmtVars, detVars, netVars, mainVars, extVars, winVars>>

\* the threshold test on the parsed value; after a ValueError there is none
ConvQualify ==
  /\ c_pc = "parsed" /\ ~c_result.raised
  /\ c_qualifies' = Qualifies(c_parser, c_result, MinRevenueDefault)
  /\ c_pc' = "judged"
  /\ UNCHANGED <<c_parser, c_text, c_result, c_display, c_redisplay>>
  /\ UNCHANGED <<fmtVars, detVars, netVars, mainVars, extVars, winVars>>

\* parse_ondeck_revenue parses and tests in one call
ConvOndeck ==
  /\ c_pc = "input" /\ c_parser = "ondeck"
  /\ c_qualifies' = ParseOndeckRevenue(c_text)
  /\ c_pc' = "judged"
  /\ UNCHANGED <<c_parser, c_text, c_result, c_display, c_redisplay>>
  /\ UNCHANGED <<fmtVars, detVars, netVars, mainVars, extVars, winVars>>

\* revenue=format_financial_text(raw_deal.revenue_text) of main.py,
\* format_to_million_yen(raw_deal.revenue_text) of main3.py
ConvFormat ==
  /\ c_pc = "input" /\ c_parser \in {"main", "main3"}
  /\ c_display' = DisplayText(c_parser, c_text)
  /\ c_pc' = "formatted"
  /\ UNCHANGED <<c_parser, c_text, c_result, c_qualifies, c_redisplay>>
  /\ UNCHANGED <<fmtVars, detVars, netVars, mainVars, extVars, winVars>>

\* the formatter applied to a text it produced
ConvFormatAgain ==
  /\ c_pc = "formatted"
  /\ c_redisplay' = DisplayText(c_parser, c_display)
  /\ c_pc' = "reformatted"
  /\ UNCHANGED <<c_parser, c_text, c_result, c_qualifies, c_display>>
  /\ UNCHANGED <<fmtVars, detVars, netVars, mainVars, extVars, winVars>>

(***************************************************************************)
(* Field extraction of UniversalParser (main.py): the selector chains of   *)
(* _extract_strike_revenue_flexible, _parse_selector_based and             *)
(* _extract_ma_capital_title_flexible.  "chou" = 超.                       *)
(***************************************************************************)
\* what item.select_one(selector) gives: no element, or an element whose
\* get_text(strip=True) is empty, at most 5 characters long, or longer
SelectOutcomes == {"none", "empty", "short", "long"}

Extractors == {"strike_revenue", "selector_based", "ma_capital_title"}

\* len(selectors_to_try): the four selectors of the strike revenue, the
\* configured selector and its [class*=...] alternative, the six of the title
SelectorsToTry(func) ==
  CASE func = "strike_revenue" -> 4
    [] func = "selector_based" -> 2
    [] func = "ma_capital_title" -> 6

\* revenue_patterns of _extract_strike_revenue_flexible, in order
RevenuePatterns ==
  << <<"5", "fwtilde", "1", "0", "oku", "en">>,
     <<"5", "wave", "1", "0", "oku", "en">>,
     <<"1", "0", "fwtilde", "5", "0", "oku", "en">>,
     <<"1", "0", "wave", "5", "0", "oku", "en">>,
     <<"5", "0", "fwtilde", "1", "0", "0", "oku", "en">>,
     <<"5", "0", "wave", "1", "0", "0", "oku", "en">>,
     <<"1", "0", "0", "oku", "en", "chou">> >>

\* pattern.replace('〜', '～')
NormalizePattern(pattern) ==
  [i \in 1..Len(pattern) |-> IF pattern[i] = "wave" THEN "fwtilde" ELSE pattern[i]]

\* for pattern in revenue_patterns: if re.search(pattern, item_text):
\* return normalized; return ""
RevenueByPattern(item_text) ==
  LET hits == {k \in 1..Len(RevenuePatterns) : Contains(item_text, RevenuePatterns[k])}
  IN IF hits = {} THEN <<>>
     ELSE NormalizePattern(RevenuePatterns[CHOOSE k \in hits : \A j \in hits : k <= j])

\* the text of the element selector k gave
ElementText(k, outcome) == [source |-> "selector", k |-> k, text |-> outcome]
\* a text that comes from no element: the pattern found, "" or the default title
OtherText(source, text) == [source |-> source, k |-> 0, text |-> text]

\* "if sales_element:", "if element:", "if title_element:": an element is
\* true whatever its text
ElementFound(outcome) == outcome # "none"

\* whether the pass of the loop that found an element ends the chain:
\* _extract_ma_capital_title_flexible goes on unless
\* "title_text and len(title_text) > 5"
EndsChain(func, outcome) ==
  IF func = "ma_capital_title" THEN outcome = "long" ELSE TRUE

\* what follows the chain when no pass ended it
AfterChain(func, item_text) ==
  CASE func = "strike_revenue" ->
         LET found == RevenueByPattern(item_text)
         IN OtherText(IF found = <<>> THEN "none" ELSE "regex", found)
    [] func = "selector_based" ->
         \* text_content = element.get_text(strip=True) if element else ""
         OtherText("none", <<>>)
    [] func = "ma_capital_title" -> OtherText("default", <<"title_of_deal_id">>)

\* item.get_text() of the listing
ItemTexts ==
  {<<>>, <<"3", "oku", "en">>,
   <<"5", "wave", "1", "0", "oku", "en">>,
   <<"1", "0", "fwtilde", "5", "0", "oku", "en">>,
   <<"1", "0", "0", "oku", "en", "chou">>}

NoResult == [source |-> "none", k |-> 0, text |-> <<>>]

ExtIdle ==
  /\ x_func = "none" /\ x_item = <<>> /\ x_text = <<>> /\ x_k = 0
  /\ x_pc = "off" /\ x_result = NoResult

ExtInit ==
  /\ x_func \in Extractors
  /\ x_item \in [1..SelectorsToTry(x_func) ->
                   IF x_func = "ma_capital_title" THEN SelectOutcomes
                   ELSE SelectOutcomes \ {"short"}]
  /\ x_text \in IF x_func = "strike_revenue" THEN ItemTexts ELSE {<<>>}
  /\ x_k = 0 /\ x_pc = "chain" /\ x_result = NoResult

\* one pass of "for selector in selectors_to_try"
ExtractTrySelector ==
  /\ x_pc = "chain" /\ x_k < SelectorsToTry(x_func)
  /\ LET k == x_k + 1
     IN /\ x_k' = k
        /\ IF ElementFound(x_item[k]) /\ EndsChain(x_func, x_item[k])
           THEN /\ x_result' = ElementText(k, x_item[k])
                /\ x_pc' = "done"
           ELSE UNCHANGED <<x_result, x_pc>>
  /\ UNCHANGED <<x_func, x_item, x_text>>
  /\ UNCHANGED <<fmtVars, detVars, netVars, mainVars, convVars, winVars>>

\* the chain is exhausted: the pattern search over item.get_text(), the
\* empty text_content or the default title
ExtractAfterChain ==
  /\ x_pc = "chain" /\ x_k = SelectorsToTry(x_func)
  /\ x_result' = AfterChain(x_func, x_text)
  /\ x_pc' = "done"
  /\ UNCHANGED <<x_func, x_item, x_text, x_k>>
  /\ UNCHANGED <<fmtVars, detVars, netVars, mainVars, convVars, winVars>>

(***************************************************************************)
(* The text fallback of UniversalParser                                    *)
(* (_parse_masouken_text_fallback_improved, main.py): the flattened page   *)
(* is cut at the starts of the 案件ID matches and each deal is read from   *)
(* its own piece.  The page text is a sequence of stretches, each with its *)
(* length in characters: an "anchor" (one match of deal_id_pattern, with   *)
(* the deal id), a "revenue" or "profit" line (keyword and value up to the *)
(* end of the line) or "filler" (any other text).                          *)
(***************************************************************************)
\* content_text[start_pos:start_pos + 2000]
LastWindowLength == 2000

AnchorLength == 8
FieldLength == 12
\* lengths of the other stretches of text; with these lengths the end of
\* the last window falls inside filler, never inside a field line
FillerLengths == {10, 3000}

Anchor(id) == [kind |-> "anchor", len |-> AnchorLength, val |-> <<id>>]
Field(kind, text) == [kind |-> kind, len |-> FieldLength, val |-> text]
Filler(n) == [kind |-> "filler", len |-> n, val |-> <<>>]

Stretches ==
  {Anchor(id) : id \in {"101", "102"}}
    \cup {Field("revenue", t) : t \in {<<"5", "oku", "en">>, <<"1", "oku", "en">>}}
    \cup {Field("profit", <<"1", "oku", "en">>)}
    \cup {Filler(n) : n \in FillerLengths}

\* the texts of at most n stretches
RECURSIVE TextsUpTo(_)
TextsUpTo(n) ==
  IF n = 0 THEN {<<>>}
  ELSE LET shorter == TextsUpTo(n - 1)
       IN shorter \cup {Append(t, s) : t \in {u \in shorter : Len(u) = n - 1},
                                       s \in Stretches}

\* the 0-based position of the first character of stretch k; for
\* k = Len(text) + 1 it is len(content_text)
RECURSIVE StartOf(_, _)
StartOf(text, k) == IF k <= 1 THEN 0 ELSE StartOf(text, k - 1) + text[k - 1].len

\* list(re.finditer(deal_id_pattern, content_text)): the matches in the
\* order of their positions, each as the index of its stretch
RECURSIVE DealMatches(_)
DealMatches(text) ==
  IF text = <<>> THEN <<>>
  ELSE LET before == DealMatches(SubSeq(text, 1, Len(text) - 1))
       IN IF text[Len(text)].kind = "anchor" THEN Append(before, Len(text)) ELSE before

\* end_pos = deal_matches[i + 1].start() if there is a next match, else
\* start_pos + 2000 (i counts from 1 here)
EndPosMut(text, matches, i, start_pos) == start_pos + LastWindowLength
EndPos(text, matches, i, start_pos) ==
  IF i < Len(matches) THEN StartOf(text, matches[i + 1])
  ELSE start_pos + LastWindowLength

\* content_text[lo:hi]: the slice ends at the end of the text at the
\* latest; the stretches that lie in it whole, in order
SliceEnd(text, hi) ==
  IF hi < StartOf(text, Len(text) + 1) THEN hi ELSE StartOf(text, Len(text) + 1)
Slice(text, lo, hi) ==
  LET RECURSIVE Inside(_)
      Inside(k) ==
        IF k > Len(text) THEN <<>>
        ELSE IF StartOf(text, k) >= lo /\ StartOf(text, k + 1) <= SliceEnd(text, hi)
        THEN <<text[k]>> \o Inside(k + 1)
        ELSE Inside(k + 1)
  IN Inside(1)

\* _extract_financial_info_flexible(content, keywords): the value of the
\* first line with the keyword, "" when there is none
ExtractFinancialInfo(content, kind) ==
  LET lines == SelectSeq(content, LAMBDA s : s.kind = kind)
  IN IF lines = <<>> THEN <<>> ELSE lines[1].val

\* "if revenue_value < min_revenue or profit_value < min_profit: continue"
FailsFinancialCriteria(revenue_text, profit_text) ==
  \/ MainParseFinancialValue(revenue_text) < MinRevenueDefault
  \/ MainParseFinancialValue(profit_text) < MinProfitDefault

WinIdle ==
  /\ w_text = <<>> /\ w_i = 0 /\ w_windows = <<>> /\ w_results = <<>> /\ w_pc = "off"

WinInit ==
  /\ w_text \in TextsUpTo(MaxStretches)
  /\ w_i = 0 /\ w_windows = <<>> /\ w_results = <<>> /\ w_pc = "loop"

\* one pass of "for i, match in enumerate(deal_matches)"
WindowStep ==
  /\ w_pc = "loop" /\ w_i < Len(DealMatches(w_text))
  /\ LET deal_matches == DealMatches(w_text)
         i            == w_i + 1
         deal_id      == w_text[deal_matches[i]].val
         start_pos    == StartOf(w_text, deal_matches[i])
         end_pos      == EndPos(w_text, deal_matches, i, start_pos)
         content      == Slice(w_text, start_pos, end_pos)
         revenue_text == ExtractFinancialInfo(content, "revenue")
         profit_text  == ExtractFinancialInfo(content, "profit")
         deal_data    == [deal_id |-> deal_id, revenue_text |-> revenue_text,
                          profit_text |-> profit_text]
     IN /\ w_i' = i
        /\ w_windows' = Append(w_windows,
                          [start_pos |-> start_pos,
                           end_pos |-> SliceEnd(w_text, end_pos),
                           deal_data |-> deal_data])
        /\ w_results' = IF FailsFinancialCriteria(revenue_text, profit_text)
                        THEN w_results ELSE Append(w_results, deal_data)
  /\ UNCHANGED <<w_text, w_pc>>
  /\ UNCHANGED <<fmtVars, detVars, netVars, mainVars, convVars, extVars>>

\* return results: after the last match, or at once when there is none
WindowReturn ==
  /\ w_pc = "loop" /\ w_i = Len(DealMatches(w_text))
  /\ w_pc' = "done"
  /\ UNCHANGED <<w_text, w_i, w_windows, w_results>>
  /\ UNCHANGED <<fmtVars, detVars, netVars, mainVars, convVars, extVars>>

(***************************************************************************)
(* Specifications: one per part of the program                             *)
(***************************************************************************)
FormatNext == FormatSkipSource \/ FormatCall \/ FormatStep \/ FormatReturn
InitFormat == FormatInit /\ DetIdle /\ NetIdle /\ MainIdle /\ ConvIdle /\ ExtIdle /\ WinIdle
SpecFormat == InitFormat /\ [][FormatNext]_vars

DetailNext ==
  \/ EnhanceStart \/ DetailSkipRemaining \/ DetailFirstLoad
  \/ DetailRecoveryLoad \/ EnhanceReturn
InitDetail == DetailInit /\ FmtIdle /\ NetIdle /\ MainIdle /\ ConvIdle /\ ExtIdle /\ WinIdle
SpecDetail == InitDetail /\ [][DetailNext]_vars

NetNext == ScrapePage \/ FetchLoopEnds \/ FetchAttempt \/ ScrapeReturn
InitNet == NetInit /\ FmtIdle /\ DetIdle /\ MainIdle /\ ConvIdle /\ ExtIdle /\ WinIdle
SpecNet == InitNet /\ [][NetNext]_vars

MainNext ==
  \/ MainConnect \/ MainGetExistingIds \/ MainProcessSource \/ MainWrite
  \/ MainAppendRows \/ OtherProcessAppends
InitMain == MainInit /\ FmtIdle /\ DetIdle /\ NetIdle /\ ConvIdle /\ ExtIdle /\ WinIdle
SpecMain == InitMain /\ [][MainNext]_vars

ConvNext ==
  ConvParse \/ ConvQualify \/ ConvOndeck \/ ConvFormat \/ ConvFormatAgain
InitConv == ConvInit /\ FmtIdle /\ DetIdle /\ NetIdle /\ MainIdle /\ ExtIdle /\ WinIdle
SpecConv == InitConv /\ [][ConvNext]_vars

ExtNext == ExtractTrySelector \/ ExtractAfterChain
InitExt ==
  ExtInit /\ FmtIdle /\ DetIdle /\ NetIdle /\ MainIdle /\ ConvIdle /\ WinIdle
SpecExt == InitExt /\ [][ExtNext]_vars

WinNext == WindowStep \/ WindowReturn
InitWin ==
  WinInit /\ FmtIdle /\ DetIdle /\ NetIdle /\ MainIdle /\ ConvIdle /\ ExtIdle
SpecWin == InitWin /\ [][WinNext]_vars

(***************************************************************************)
(* Claims                                                                  *)
(***************************************************************************)
\* C1: in main.py and main3.py, format_deal_data emits at most one
\* FormattedDealData per unique_id in one call: no two records of
\* formatted_deals carry the same unique_id.
C1_OneRecordPerUniqueId ==
  variant \in {"main", "main3"} =>
    \A a, b \in 1..Len(formatted_deals) :
      a # b => formatted_deals[a].unique_id # formatted_deals[b].unique_id

\* C2: in all three scripts, a step of format_deal_data on a record whose
\* unique_id is in existing_ids at that moment emits nothing, and every
\* record a step emits has a unique_id that was not in existing_ids at that
\* moment, whatever the record's financial texts are.
C2_KnownIdNeverEmitted ==
  [][(f_pc = "loop" /\ f_i' = f_i + 1) =>
       LET unique_id == UniqueIdOf(variant, f_raw_deals[f_i + 1])
       IN /\ unique_id \in existing_ids => formatted_deals' = formatted_deals
          /\ Len(formatted_deals') > Len(formatted_deals) =>
               /\ formatted_deals'[Len(formatted_deals')].unique_id = unique_id
               /\ unique_id \notin existing_ids]_vars

\* a qualifying record with a known unique_id has been processed in main.py
\* and nothing was emitted
C2_Witness ==
  /\ variant = "main" /\ f_pc = "loop" /\ f_i = 1
  /\ UniqueIdOf(variant, f_raw_deals[1]) \in existing_ids
  /\ f_raw_deals[1].revenue_text = Text5Oku
  /\ f_raw_deals[1].profit_text = Text5Oku
  /\ formatted_deals = <<>>

MainPySites == {"standard", "strike"}

\* C3: a detail fetch of main.py never loads the page more than twice, and
\* a fetch whose first response was a block page has made exactly one
\* recovery load by the time it returns, also when that load is blocked too.
C3_ExactlyOneRecoveryFetch ==
  \A k \in 1..Len(d_raw_deals) :
    /\ d_loads[k] <= 2
    /\ (d_site \in MainPySites /\ d_first[k] = "blocked" /\ Len(enhanced_deals) >= k)
         => (d_loads[k] = 2 /\ d_recov[k] # "none")

\* a fetch whose first and recovery responses were both block pages has returned
C3_Witness ==
  /\ d_site \in MainPySites /\ Len(enhanced_deals) >= 1
  /\ d_first[1] = "blocked" /\ d_recov[1] = "blocked" /\ d_loads[1] = 2

\* C4: in main.py, when the recovery load of a deal is still blocked,
\* blocked_detected stays true, the deal is returned without detail data and
\* no page is loaded for any later deal.
C4_StillBlockedStopsDetailFetches ==
  \A k \in 1..Len(d_raw_deals) :
    (d_site \in MainPySites /\ d_recov[k] = "blocked") =>
      /\ blocked_detected
      /\ Len(enhanced_deals) >= k /\ enhanced_deals[k] = Plain(d_raw_deals[k])
      /\ \A j \in (k + 1)..Len(d_raw_deals) : d_loads[j] = 0 /\ d_first[j] = "none"

\* the crawl has ended after a still-blocked recovery on the first of several deals
C4_Witness ==
  /\ d_site \in MainPySites /\ d_pc = "done" /\ Len(d_raw_deals) >= 2
  /\ d_recov[1] = "blocked" /\ Len(enhanced_deals) = Len(d_raw_deals)

\* C5: when the recovery load gives a page that is not a block page, the
\* extraction reads the retried page, blocked_detected is false when the
\* loop reaches the next deal, and the next deal is loaded as usual.
C5_RecoveredFetchClearsFlag ==
  \A k \in 1..Len(d_raw_deals) :
    d_recov[k] = "ok" =>
      /\ Len(enhanced_deals) >= k /\ enhanced_deals[k].detail = "retry"
      /\ (d_pc = "head" /\ d_i = k + 1) => ~blocked_detected
      /\ (Len(enhanced_deals) >= k + 1
            /\ (d_raw_deals[k + 1].has_link \/ LoadsWithoutLink(d_site)))
           => d_loads[k + 1] >= 1

\* a recovered fetch on the first deal, and the second deal loaded after it
C5_Witness ==
  /\ Len(d_raw_deals) >= 2 /\ d_first[1] = "blocked" /\ d_recov[1] = "ok"
  /\ Len(enhanced_deals) >= 2 /\ d_first[2] = "ok"

\* C6: in main3.py, once block pages have come back for two deals in a row,
\* blocked_detected is true and no detail page is loaded for the deals after them.
C6_SpeedMAStopsWhenBlocked ==
  d_site = "speedma" =>
    \A k \in 1..Len(d_raw_deals) :
      (k + 1 <= Len(d_raw_deals) /\ d_first[k] = "blocked" /\ d_first[k + 1] = "blocked")
        => /\ blocked_detected
           /\ \A j \in (k + 2)..Len(d_raw_deals) : d_loads[j] = 0

\* C7: when the worksheet cannot be opened or reading the existing ids
\* fails, main fetches no page and appends no row.
C7_NoBaselineNoCrawl ==
  (worksheet = "None" \/ m_read = "failed") =>
    (m_fetches = 0 /\ m_appended = <<>>)

\* C8: when the retries for list page p are exhausted, the crawl of main.py
\* and main3.py still requests every later page of the source.
C8_ExhaustedPageOnlySkipped ==
  (n_script \in {"main", "main3"} /\ n_pc = "done") =>
    \A p \in 1..max_pages :
      page_log[p] = "raised" => \A q \in (p + 1)..max_pages : requests[q] >= 1

TransientOutcomes == {"timeout", "5xx"}

\* C9: a fetch_html call never issues more than max_retries requests, and a
\* call that ended with every request failing by timeout or 5xx issued
\* exactly max_retries requests, slept between them only, and ended by
\* raising the failure.
C9_BoundedTransientRetries ==
  \A p \in 1..max_pages :
    /\ requests[p] <= max_retries
    /\ (page_log[p] # "none" /\ last_outcome[p] \in TransientOutcomes) =>
         /\ requests[p] = max_retries
         /\ sleeps[p] = max_retries - 1
         /\ page_log[p] = "raised"

\* a call has ended after three failed requests
C9_Witness ==
  /\ max_retries = 3 /\ page_log[1] = "raised" /\ requests[1] = 3
  /\ first_outcome[1] = "timeout" /\ last_outcome[1] = "5xx"

\* C10: a request answered with a 4xx status ends the fetch_html call with
\* None at once, with no sleep after it; when it is the first request of
\* the call, the call made exactly one request and did not sleep.
C10_ClientErrorNotRetried ==
  \A p \in 1..max_pages :
    /\ last_outcome[p] = "4xx" =>
         (page_log[p] = "skipped" /\ sleeps[p] = requests[p] - 1)
    /\ first_outcome[p] = "4xx" =>
         (page_log[p] = "skipped" /\ requests[p] = 1 /\ sleeps[p] = 0)

\* the first request for page 1 was answered 4xx and the loop went on to page 2
C10_Witness ==
  /\ first_outcome[1] = "4xx" /\ requests[1] = 1 /\ page_log[1] = "skipped"
  /\ page_num = 2 /\ max_retries >= 2

\* C11: when an error comes up in one source of a run of main.py or
\* main2.py, at whatever stage, main still goes through every other source
\* and, unless the write itself fails, every record another source handed
\* over is in the sheet when main ends.
C11_SourceFailureIsolated ==
  (m_pc = "done" /\ worksheet = "ok") =>
    /\ m_site = Len(SourcesOf(m_script))
    /\ m_write # "failed" =>
         \A k \in 1..Len(SourcesOf(m_script)) :
           SeqToSet(m_found[k]) \subseteq sheet_ids

\* the first source failed at its detail stage, the second one handed over
\* a record that was not in the sheet, and the record has been appended
C11_Witness ==
  /\ m_pc = "done" /\ m_raised[1] = "detail" /\ m_raised[2] = "none"
  /\ m_found[2] # <<>> /\ m_write = "ok"
  /\ \E k \in 1..Len(m_appended) : m_appended[k] \in SeqToSet(m_found[2])

\* C14: a run reads the existing ids once, before any page is fetched, and
\* appends at most once, after the last source; it never reads the ids a
\* second time.
C14_OneReadThenOneAppend ==
  /\ Len(SelectSeq(m_store, LAMBDA op : op = "read")) <= 1
  /\ Len(SelectSeq(m_store, LAMBDA op : op = "append")) <= 1
  /\ (m_fetches > 0 => (m_store # <<>> /\ m_store[1] = "read"))
  /\ (m_store # <<>> /\ m_store[Len(m_store)] = "append")
       => m_site = Len(SourcesOf(m_script))

\* C12: two records of one format_deal_data call that carry the same
\* non-empty detail link have the same unique_id, whatever their deal_ids
\* are, and at most one record with that link is emitted.
C12_LinkDecidesUniqueId ==
  \A a, b \in 1..Len(f_raw_deals) :
    (a < b /\ f_raw_deals[a].link # <<>> /\ f_raw_deals[a].link = f_raw_deals[b].link)
      => /\ UniqueIdOf(variant, f_raw_deals[a]) = UniqueIdOf(variant, f_raw_deals[b])
         /\ Cardinality({k \in 1..Len(formatted_deals) :
                           formatted_deals[k].link = f_raw_deals[a].link}) <= 1

\* C13: in main2.py no two records emitted in one run carry the same
\* unique_id, within a format_deal_data call and across the calls of the run.
C13_Main2NoDuplicateInRun ==
  variant = "main2" =>
    LET emitted == all_new_deals \o (IF f_pc = "loop" THEN formatted_deals ELSE <<>>)
    IN \A a, b \in 1..Len(emitted) :
         a # b => emitted[a].unique_id # emitted[b].unique_id

\* the second call of a main2.py run has emitted the first of two records
\* with the same unique_id and dropped the second, after a first call that
\* emitted a record
C13_Witness ==
  /\ variant = "main2" /\ f_calls = 2 /\ f_pc = "loop" /\ f_i = 2
  /\ all_new_deals # <<>> /\ existing_ids # {}
  /\ UniqueIdOf(variant, f_raw_deals[1]) = UniqueIdOf(variant, f_raw_deals[2])
  /\ Len(formatted_deals) = 1

\* a text that stands for "no value": empty, non-disclosed, negotiable, masked
IsAbsentText(text) ==
  \/ text = <<>> \/ Contains(text, KwHikoukai)
  \/ Contains(text, KwOusoudan) \/ Contains(text, KwMasked)

\* C19: a step of format_deal_data on a record with an unknown unique_id,
\* of which the revenue or the profit text stands for "no value" and the
\* other one does too or resolves to at least its threshold, emits the record.
C19_AbsentNeverRejected ==
  [][(f_pc = "loop" /\ f_i' = f_i + 1) =>
       LET d == f_raw_deals[f_i + 1]
           revenue_ok == \/ IsAbsentText(d.revenue_text)
                         \/ MainParseFinancialValue(d.revenue_text) >= MinRevenueDefault
           profit_ok  == \/ IsAbsentText(d.profit_text)
                         \/ MainParseFinancialValue(d.profit_text) >= MinProfitDefault
       IN (/\ UniqueIdOf(variant, d) \notin existing_ids
           /\ IsAbsentText(d.revenue_text) \/ IsAbsentText(d.profit_text)
           /\ revenue_ok /\ profit_ok)
          => Len(formatted_deals') = Len(formatted_deals) + 1]_vars

\* C15: when enhance_deals_with_details has returned, no browser it started
\* is still running, whatever path it took.
C15_BrowserQuitOnReturn ==
  d_pc = "done" => driver # "running"

\* C16: enhance_deals_with_details returns every input deal exactly once and
\* in input order, whether the loop ran to its end, stopped on a persistent
\* block or the browser could not be started, and a deal whose page was
\* extracted keeps that result when the crawl stops early.
C16_EachDealOnceInOrder ==
  /\ Len(enhanced_deals) <= Len(d_raw_deals)
  /\ \A k \in 1..Len(enhanced_deals) :
       /\ enhanced_deals[k].id = d_raw_deals[k].id
       /\ d_first[k] = "ok" => enhanced_deals[k].detail = "first"
       /\ d_recov[k] = "ok" => enhanced_deals[k].detail = "retry"
  /\ d_pc = "done" => Len(enhanced_deals) = Len(d_raw_deals)

\* a crawl of three deals has returned after the first deal was extracted
\* and the second one stayed blocked: the third was handed back unfetched
C16_Witness ==
  /\ d_pc = "done" /\ Len(d_raw_deals) = 3 /\ Len(enhanced_deals) = 3
  /\ d_first[1] = "ok" /\ enhanced_deals[1].detail = "first"
  /\ d_recov[2] = "blocked" /\ d_loads[3] = 0

\* C17: for a text that denotes one amount or a range of amounts, the
\* threshold test says "qualifies" exactly when the amount, or the upper
\* bound of the range, is at least the threshold.
C17_RangeMaxDecides ==
  (c_pc = "judged" /\ MeaningOf(c_parser, c_text).kind \in {"single", "range"})
    => c_qualifies = (MeaningOf(c_parser, c_text).hi >= MinRevenueDefault)

\* C18: a text that denotes a negative amount (an amount after "-", ▲ or △)
\* parses to a negative value, and a parsed value whose maximum is negative
\* does not qualify.
C18_NegativeStaysNegative ==
  /\ (/\ c_pc \in {"parsed", "judged"} /\ c_parser # "ondeck"
      /\ MeaningOf(c_parser, c_text).kind = "negative")
       => (~c_result.raised /\ c_result.max < 0)
  /\ (c_pc = "judged" /\ c_parser # "ondeck" /\ c_result.max < 0) => ~c_qualifies

\* C20: a text that contains a non-disclosure, negotiable or masked marker
\* parses to the absent value (0, or the pair (0, 0)), whatever digits and
\* units stand before or after the marker.
C20_DenylistedIsAbsent ==
  (/\ c_pc \in {"parsed", "judged"} /\ c_parser # "ondeck"
   /\ MeaningOf(c_parser, c_text).kind = "denylisted")
    => c_result = Returned(0, 0)

\* texts whose first numeric token is not a number
MalformedTexts == {<<".">>, <<"-">>, <<"1", ".", "2", ".", "3", "oku", "en">>}

\* C21: no text makes a financial parser raise, and a text whose first
\* numeric token is malformed ('.', '1.2.3億円', a lone '-') parses to the
\* absent value.
C21_ParsersNeverRaise ==
  (c_pc \in {"parsed", "judged"} /\ c_parser # "ondeck") =>
    /\ ~c_result.raised
    /\ c_text \in MalformedTexts => c_result = Returned(0, 0)

\* texts with no determinable value: empty, negotiable, masked, no digits
UndeterminedTexts == {<<>>, KwOusoudan, KwMasked, <<"en">>}
\* '0円': an actual amount of zero
ZeroAmountText == <<"0", "en">>

\* C22: what a parser returns for a text that denotes an actual zero amount
\* ('0円') differs from what it returns for every text with no determinable
\* value (empty, denylisted, masked, no digits).
C22_AbsentIsNotZero ==
  (c_pc \in {"parsed", "judged"} /\ c_parser # "ondeck" /\ c_text = ZeroAmountText) =>
    \A t \in UndeterminedTexts : ParseResult(c_parser, t) # c_result

RangeAwareParsers == {"batonz", "masucceed", "btix"}

\* C23: every pair a range-aware parse_financial_value returns has
\* min <= max, whatever the text is: a range, a 未満/以下 or 以上 form, a
\* negative value, a text with a separator inside or next to a number.
C23_MinAtMostMax ==
  (c_pc \in {"parsed", "judged"} /\ c_parser \in RangeAwareParsers /\ ~c_result.raised)
    => c_result.min <= c_result.max

\* C24: the waits of retry_on_failure between the requests of one
\* fetch_html call grow exponentially: each wait is at least twice the wait
\* before it, for every max_retries and every delay.
C24_BackoffDoubles ==
  \A p \in 1..max_pages :
    \A k \in 2..Len(waits[p]) : waits[p][k] >= 2 * waits[p][k - 1]

\* C25: a text made of one numeric token n and one unit token (億, 千万,
\* 百万, 万, 千) parses to n times the scale of that unit (10^8, 10^7, 10^6,
\* 10^4, 10^3): 千万 and 百万 are never read as 万 or 千.
C25_UnitScaleByLongestMatch ==
  (/\ c_pc \in {"parsed", "judged"} /\ c_parser # "ondeck"
   /\ MeaningOf(c_parser, c_text).kind = "unit")
    => c_result = Returned(MeaningOf(c_parser, c_text).hi, MeaningOf(c_parser, c_text).hi)

\* selectors of the chain whose element has non-empty text
YieldsText(item) == {k \in 1..Len(item) : item[k] \in {"short", "long"}}

\* C26: an extraction returns the text of the first selector of its chain
\* whose element has non-empty text; an element with empty text does not
\* end the chain; when no selector gives non-empty text the pattern search
\* over the flattened text decides, and the result is the empty string when
\* nothing matches at all.
C26_FirstNonEmptyLocatorWins ==
  x_pc = "done" =>
    IF YieldsText(x_item) # {}
    THEN LET k == CHOOSE i \in YieldsText(x_item) : \A j \in YieldsText(x_item) : i <= j
         IN x_result = ElementText(k, x_item[k])
    ELSE /\ x_result.source # "selector"
         /\ x_func = "strike_revenue" => x_result.text = RevenueByPattern(x_text)
         /\ x_func # "strike_revenue" => x_result.text = <<>>

\* the start positions of the anchors of the page, in increasing order
AnchorStarts ==
  LET idx == SelectSeq([k \in 1..Len(w_text) |-> k], LAMBDA k : w_text[k].kind = "anchor")
  IN [n \in 1..Len(idx) |-> StartOf(w_text, idx[n])]

\* min(a, b)
Least(a, b) == IF a < b THEN a ELSE b

\* C27: the text fallback takes one window per anchor, in order: the
\* window of anchor i runs from the start of anchor i to the start of
\* anchor i + 1, the last one from the start of the last anchor over 2000
\* characters (or to the end of the text); windows do not overlap, each
\* holds exactly one anchor start, and the fields of a record are lines of
\* its own window.
C27_OneWindowPerAnchor ==
  LET p == AnchorStarts
      n == Len(p)
  IN /\ Len(w_windows) <= n
     /\ w_pc = "done" => Len(w_windows) = n
     /\ \A i \in 1..Len(w_windows) :
          LET w == w_windows[i]
          IN /\ w.start_pos = p[i]
             /\ w.end_pos = IF i < n THEN p[i + 1]
                            ELSE Least(p[n] + 2000, StartOf(w_text, Len(w_text) + 1))
             /\ \A j \in 1..(i - 1) : w_windows[j].end_pos <= w.start_pos
             /\ {k \in 1..n : w.start_pos <= p[k] /\ p[k] < w.end_pos} = {i}
             /\ \A kind \in {"revenue", "profit"} :
                  LET text == IF kind = "revenue" THEN w.deal_data.revenue_text
                              ELSE w.deal_data.profit_text
                  IN text # <<>> =>
                       \E k \in 1..Len(w_text) :
                         /\ w_text[k].kind = kind /\ w_text[k].val = text
                         /\ w.start_pos <= StartOf(w_text, k)
                         /\ StartOf(w_text, k + 1) <= w.end_pos
     /\ \A r \in 1..Len(w_results) :
          \E i \in 1..Len(w_windows) : w_windows[i].deal_data = w_results[r]

\* a page with two anchors has been processed: the first window ended at
\* the second anchor and gave a record, the second window was cut off after
\* 2000 characters, before the end of the text
C27_Witness ==
  /\ w_pc = "done" /\ Len(w_windows) = 2 /\ Len(w_results) = 1
  /\ w_results[1] = w_windows[1].deal_data
  /\ w_windows[1].end_pos = w_windows[2].start_pos
  /\ w_windows[2].end_pos = w_windows[2].start_pos + 2000
  /\ w_windows[2].end_pos < StartOf(w_text, Len(w_text) + 1)

\* '5,000万円〜1億円' and its canonical display '50～100百万円'
RangeExample ==
  <<"5", ",", "0", "0", "0", "man", "en", "wave", "1", "oku", "en">>
CanonicalExample == <<"5", "0", "fwtilde", "1", "0", "0", "hyaku", "man", "en">>

\* C28: the display formatting of '5,000万円〜1億円' gives exactly
\* '50～100百万円', both bounds in millions with one unit suffix after the
\* range, and formatting that output again leaves it unchanged.
C28_RangeDisplayCanonical ==
  /\ (c_pc \in {"formatted", "reformatted"} /\ c_text = RangeExample)
       => c_display = CanonicalExample
  /\ (c_pc = "reformatted" /\ c_text = RangeExample) => c_redisplay = c_display

\* C29: main2.py never appends a row whose unique_id is in the sheet at the
\* moment of the append, also when another process appends rows to the
\* sheet during the run.
C29_NoAppendOfPresentId ==
  [][(m_script = "main2" /\ m_appended' # m_appended) =>
       \A k \in 1..Len(m_appended') : m_appended'[k] \notin sheet_ids]_vars

\* C30: one crawl of a source requests no list url twice (the requests of
\* one fetch_html call count as one), for every pagination type and every
\* max_pages.
C30_EachListUrlOnce ==
  \A a, b \in 1..Len(urls) : a < b => urls[a] # urls[b]

====
